---- MODULE Spec2Model ----
(***************************************************************************)
(* Rynamo: the guided query builder, the response normalizer               *)
(* (QueryResult::from_json), pagination and the key handlers that drive    *)
(* them, as a state machine over the App struct.                           *)
(*                                                                         *)
(* Text is a sequence of tokens (a token is a run of characters that the   *)
(* code never splits); a displayed cell, an identifier and a link are      *)
(* strings.  Option<T> is a record [some, v].                              *)
(***************************************************************************)
EXTENDS Integers, Sequences, FiniteSets, TLC

(***************************************************************************)
(* Option<T>                                                               *)
(***************************************************************************)
NoneS == [some |-> FALSE, v |-> ""]
SomeS(s) == [some |-> TRUE, v |-> s]
NoneN == [some |-> FALSE, v |-> 0]
SomeN(n) == [some |-> TRUE, v |-> n]

(***************************************************************************)
(* serde_json::Value.  One record shape for the six kinds, plus "absent"   *)
(* for the result of Map::get on a key that is not there.                  *)
(***************************************************************************)
JBase(t) == [t |-> t, b |-> FALSE, n |-> 0, s |-> "", items |-> << >>, fields |-> << >>]
JAbsent == JBase("absent")
JNull == JBase("null")
JBool(b) == [JBase("bool") EXCEPT !.b = b]
JNum(n) == [JBase("num") EXCEPT !.n = n]
JStr(s) == [JBase("str") EXCEPT !.s = s]
JArr(items) == [JBase("arr") EXCEPT !.items = items]
JObj(fields) == [JBase("obj") EXCEPT !.fields = fields]

\* json.get(key): the member of an object, absent for a missing key or a non-object
JGet(json, key) ==
    IF json.t = "obj" /\ key \in DOMAIN json.fields THEN json.fields[key] ELSE JAbsent

(***************************************************************************)
(* Field names.  A name is a sequence of tokens; the annotation suffixes   *)
(* are tokens of their own, so format!("{}@...", col) is Append.           *)
(* TokenOrder lists the tokens in ascending byte order; no token is a      *)
(* prefix of another, so comparing names token by token is the byte-wise   *)
(* String order that Vec::sort uses.                                       *)
(***************************************************************************)
FormattedValueSuffix == "@OData.Community.Display.V1.FormattedValue"
LookupLogicalNameSuffix == "@Microsoft.Dynamics.CRM.lookuplogicalname"
TokenOrder ==
    << LookupLogicalNameSuffix, FormattedValueSuffix, "@odata.count", "@odata.etag",
       "@odata.nextLink", "_ownerid_value", "name", "status", "value" >>
TokenRank(t) == CHOOSE i \in 1..Len(TokenOrder) : TokenOrder[i] = t
\* k.starts_with('@')
StartsWithAt(k) ==
    Len(k) > 0 /\ k[1] \in { LookupLogicalNameSuffix, FormattedValueSuffix,
                             "@odata.count", "@odata.etag", "@odata.nextLink" }
\* col.starts_with('_') && col.ends_with("_value")
IsUnderscoreValueName(k) ==
    Len(k) > 0 /\ k[1] = "_ownerid_value" /\ k[Len(k)] = "_ownerid_value"

RECURSIVE NameLess(_, _)
NameLess(a, b) ==
    IF Len(b) = 0 THEN FALSE
    ELSE IF Len(a) = 0 THEN TRUE
    ELSE IF a[1] # b[1] THEN TokenRank(a[1]) < TokenRank(b[1])
    ELSE NameLess(Tail(a), Tail(b))

\* collect() of the kept keys followed by result.columns.sort()
RECURSIVE SortNames(_)
SortNames(S) ==
    IF S = {} THEN << >>
    ELSE LET m == CHOOSE x \in S : \A y \in S \ {x} : NameLess(x, y)
         IN  << m >> \o SortNames(S \ {m})

(***************************************************************************)
(* models/query.rs: QueryResult                                            *)
(***************************************************************************)
LookupInfo(id, logical_name, display_name) ==
    [id |-> id, logical_name |-> logical_name, display_name |-> SomeS(display_name)]

NoJson == [some |-> FALSE, v |-> JAbsent]
\* serde_json::to_string_pretty(&json): the text determines the value and back
to_string_pretty(json) == [some |-> TRUE, v |-> json]

QueryResultDefault ==
    [columns |-> << >>, rows |-> << >>, lookups |-> << >>, count |-> NoneN,
     next_link |-> NoneS, error |-> NoneS, raw_json |-> NoJson]

format_json_value(value) ==
    CASE value.t = "null" -> "-"
      [] value.t = "bool" -> (IF value.b THEN "true" ELSE "false")
      [] value.t = "num" -> ToString(value.n)
      [] value.t = "str" -> value.s
      [] value.t = "arr" -> "[" \o ToString(Len(value.items)) \o " items]"
      [] value.t = "obj" -> "{...}"

\* the display value taking the raw value before the annotation
DisplayVal_RawFirst(obj, col) ==
    LET f == JGet(obj, Append(col, FormattedValueSuffix))
        v == JGet(obj, col)
    IN  IF v.t # "absent" THEN format_json_value(v)
        ELSE IF f.t = "str" THEN f.s
        ELSE "-"

\* the display value of one cell (query.rs 137-145)
DisplayVal(obj, col) ==
    LET f == JGet(obj, Append(col, FormattedValueSuffix))
        v == JGet(obj, col)
    IN  IF f.t = "str" THEN f.s
        ELSE IF v.t # "absent" THEN format_json_value(v)
        ELSE "-"

\* lookup detection that looks at columns named _..._value only
IsLookupCell_OnlyUnderscore(obj, col) ==
    /\ IsUnderscoreValueName(col)
    /\ JGet(obj, Append(col, LookupLogicalNameSuffix)).t = "str"
    /\ JGet(obj, col).t = "str"

\* whether the cell gets a lookups entry (query.rs 148-171)
IsLookupCell(obj, col) ==
    LET l == JGet(obj, Append(col, LookupLogicalNameSuffix))
        v == JGet(obj, col)
    IN  IF l.t = "str" THEN v.t = "str"
        ELSE /\ IsUnderscoreValueName(col)
             /\ JGet(obj, Append(col, LookupLogicalNameSuffix)).t = "str"
             /\ v.t = "str"

\* the row loop: acc is the result so far, i the 1-based position in records
RECURSIVE ExtractRows(_, _, _)
ExtractRows(records, i, acc) ==
    IF i > Len(records) THEN acc
    ELSE LET record == records[i]
             row_idx == i - 1
             ncols == Len(acc.columns)
             row == [c \in 1..ncols |-> DisplayVal(record, acc.columns[c])]
             hits == { c \in 1..ncols : IsLookupCell(record, acc.columns[c]) }
             keys == (DOMAIN acc.lookups) \cup { << row_idx, c - 1 >> : c \in hits }
             lookups ==
                 [k \in keys |->
                    IF k[1] = row_idx /\ (k[2] + 1) \in hits
                    THEN LookupInfo(JGet(record, acc.columns[k[2] + 1]).s,
                                    JGet(record, Append(acc.columns[k[2] + 1],
                                                        LookupLogicalNameSuffix)).s,
                                    row[k[2] + 1])
                    ELSE acc.lookups[k]]
         IN  IF record.t = "obj"
             THEN ExtractRows(records, i + 1,
                              [acc EXCEPT !.rows = Append(@, row), !.lookups = lookups])
             ELSE ExtractRows(records, i + 1, acc)

\* from_json reading the continuation link before it looks for the value array
from_json_LinkBeforeValue(json) ==
    LET value == JGet(json, << "value" >>)
        link == JGet(json, << "@odata.nextLink" >>)
        cnt == JGet(json, << "@odata.count" >>)
        next_link == IF link.t = "str" THEN SomeS(link.s) ELSE NoneS
        records == value.items
        first == records[1]
        columns ==
            IF first.t = "obj"
            THEN SortNames({ k \in DOMAIN first.fields : ~StartsWithAt(k) })
            ELSE << >>
        filled == ExtractRows(records, 1, [QueryResultDefault EXCEPT !.columns = columns])
    IN  IF value.t # "arr"
        THEN [QueryResultDefault EXCEPT
                !.error = SomeS("Invalid response format: missing 'value' array"),
                !.next_link = next_link]
        ELSE IF Len(records) = 0
        THEN [QueryResultDefault EXCEPT !.next_link = next_link]
        ELSE [filled EXCEPT
                !.count = IF cnt.t = "num" /\ cnt.n >= 0 THEN SomeN(cnt.n) ELSE NoneN,
                !.next_link = next_link]

\* from_json returning at the empty array without looking for the link
from_json_EmptyPageNoLink(json) ==
    LET value == JGet(json, << "value" >>)
        link == JGet(json, << "@odata.nextLink" >>)
        cnt == JGet(json, << "@odata.count" >>)
        next_link == IF link.t = "str" THEN SomeS(link.s) ELSE NoneS
        records == value.items
        first == records[1]
        columns ==
            IF first.t = "obj"
            THEN SortNames({ k \in DOMAIN first.fields : ~StartsWithAt(k) })
            ELSE << >>
        filled == ExtractRows(records, 1, [QueryResultDefault EXCEPT !.columns = columns])
    IN  IF value.t # "arr"
        THEN [QueryResultDefault EXCEPT
                !.error = SomeS("Invalid response format: missing 'value' array")]
        ELSE IF Len(records) = 0
        THEN QueryResultDefault
        ELSE [filled EXCEPT
                !.count = IF cnt.t = "num" /\ cnt.n >= 0 THEN SomeN(cnt.n) ELSE NoneN,
                !.next_link = next_link]

\* from_json taking the columns from every record of the page
from_json_ColumnsOfAllRecords(json) ==
    LET value == JGet(json, << "value" >>)
        link == JGet(json, << "@odata.nextLink" >>)
        cnt == JGet(json, << "@odata.count" >>)
        next_link == IF link.t = "str" THEN SomeS(link.s) ELSE NoneS
        records == value.items
        first == records[1]
        columns ==
            IF first.t = "obj"
            THEN SortNames({ k \in UNION { DOMAIN records[r].fields : r \in 1..Len(records) } :
                               ~StartsWithAt(k) })
            ELSE << >>
        filled == ExtractRows(records, 1, [QueryResultDefault EXCEPT !.columns = columns])
    IN  IF value.t # "arr"
        THEN [QueryResultDefault EXCEPT
                !.error = SomeS("Invalid response format: missing 'value' array")]
        ELSE IF Len(records) = 0
        THEN [QueryResultDefault EXCEPT !.next_link = next_link]
        ELSE [filled EXCEPT
                !.count = IF cnt.t = "num" /\ cnt.n >= 0 THEN SomeN(cnt.n) ELSE NoneN,
                !.next_link = next_link]

from_json(json) ==
    LET value == JGet(json, << "value" >>)
        link == JGet(json, << "@odata.nextLink" >>)
        cnt == JGet(json, << "@odata.count" >>)
        next_link == IF link.t = "str" THEN SomeS(link.s) ELSE NoneS
        records == value.items
        first == records[1]
        columns ==
            IF first.t = "obj"
            THEN SortNames({ k \in DOMAIN first.fields : ~StartsWithAt(k) })
            ELSE << >>
        filled == ExtractRows(records, 1, [QueryResultDefault EXCEPT !.columns = columns])
    IN  IF value.t # "arr"
        THEN [QueryResultDefault EXCEPT
                !.error = SomeS("Invalid response format: missing 'value' array")]
        ELSE IF Len(records) = 0
        THEN [QueryResultDefault EXCEPT !.next_link = next_link]
        ELSE [filled EXCEPT
                !.count = IF cnt.t = "num" /\ cnt.n >= 0 THEN SomeN(cnt.n) ELSE NoneN,
                !.next_link = next_link]

(***************************************************************************)
(* models/query.rs: QueryDefinition                                        *)
(***************************************************************************)
\* slice.join(sep) over pieces of text
RECURSIVE Join(_, _)
Join(parts, sep) ==
    IF Len(parts) = 0 THEN << >>
    ELSE IF Len(parts) = 1 THEN parts[1]
    ELSE parts[1] \o << sep >> \o Join(Tail(parts), sep)

QueryDefinitionDefault ==
    [entity_name |-> << >>, entity_set_name |-> << >>, select |-> << >>,
     filter |-> << >>, order_by |-> << >>, top |-> NoneN, skip |-> NoneN]

\* build_url pushing the $skip clause before the $top clause
build_url_SkipBeforeTop(q) ==
    LET p1 == IF Len(q.select) # 0
              THEN << << "$select=" >> \o Join(q.select, ",") >> ELSE << >>
        p2 == IF Len(q.filter) # 0 THEN << << "$filter=" >> \o q.filter >> ELSE << >>
        p3 == IF Len(q.order_by) # 0 THEN << << "$orderby=" >> \o q.order_by >> ELSE << >>
        p4 == IF q.top.some THEN << << "$top=", ToString(q.top.v) >> >> ELSE << >>
        p5 == IF q.skip.some THEN << << "$skip=", ToString(q.skip.v) >> >> ELSE << >>
        parts == p1 \o p2 \o p3 \o p5 \o p4
    IN  IF Len(parts) = 0 THEN q.entity_set_name
        ELSE q.entity_set_name \o << "?" >> \o Join(parts, "&")

build_url(q) ==
    LET p1 == IF Len(q.select) # 0
              THEN << << "$select=" >> \o Join(q.select, ",") >> ELSE << >>
        p2 == IF Len(q.filter) # 0 THEN << << "$filter=" >> \o q.filter >> ELSE << >>
        p3 == IF Len(q.order_by) # 0 THEN << << "$orderby=" >> \o q.order_by >> ELSE << >>
        p4 == IF q.top.some THEN << << "$top=", ToString(q.top.v) >> >> ELSE << >>
        p5 == IF q.skip.some THEN << << "$skip=", ToString(q.skip.v) >> >> ELSE << >>
        parts == p1 \o p2 \o p3 \o p4 \o p5
    IN  IF Len(parts) = 0 THEN q.entity_set_name
        ELSE q.entity_set_name \o << "?" >> \o Join(parts, "&")

QueryDefinition_clear(q) ==
    [q EXCEPT !.select = << >>, !.filter = << >>, !.order_by = << >>,
              !.top = NoneN, !.skip = NoneN]

(***************************************************************************)
(* ui/app.rs: FilterOp and FilterCondition                                 *)
(***************************************************************************)
FilterOps ==
    << "Equals", "NotEquals", "Contains", "StartsWith", "EndsWith",
       "GreaterThan", "LessThan", "IsNull", "IsNotNull" >>
FilterOpSet == { FilterOps[i] : i \in 1..Len(FilterOps) }

\* to_odata quoting the value of the two comparisons as well
to_odata_QuotesComparison(op, attr, value) ==
    CASE op = "Equals" -> << attr, " eq '" >> \o value \o << "'" >>
      [] op = "NotEquals" -> << attr, " ne '" >> \o value \o << "'" >>
      [] op = "Contains" -> << "contains(", attr, ", '" >> \o value \o << "')" >>
      [] op = "StartsWith" -> << "startswith(", attr, ", '" >> \o value \o << "')" >>
      [] op = "EndsWith" -> << "endswith(", attr, ", '" >> \o value \o << "')" >>
      [] op = "GreaterThan" -> << attr, " gt '" >> \o value \o << "'" >>
      [] op = "LessThan" -> << attr, " lt '" >> \o value \o << "'" >>
      [] op = "IsNull" -> << attr, " eq null" >>
      [] op = "IsNotNull" -> << attr, " ne null" >>

to_odata(op, attr, value) ==
    CASE op = "Equals" -> << attr, " eq '" >> \o value \o << "'" >>
      [] op = "NotEquals" -> << attr, " ne '" >> \o value \o << "'" >>
      [] op = "Contains" -> << "contains(", attr, ", '" >> \o value \o << "')" >>
      [] op = "StartsWith" -> << "startswith(", attr, ", '" >> \o value \o << "')" >>
      [] op = "EndsWith" -> << "endswith(", attr, ", '" >> \o value \o << "')" >>
      [] op = "GreaterThan" -> << attr, " gt " >> \o value
      [] op = "LessThan" -> << attr, " lt " >> \o value
      [] op = "IsNull" -> << attr, " eq null" >>
      [] op = "IsNotNull" -> << attr, " ne null" >>

\* next() going from LessThan straight to IsNotNull
FilterOp_next_SkipsIsNull(op) ==
    CASE op = "Equals" -> "NotEquals"
      [] op = "NotEquals" -> "Contains"
      [] op = "Contains" -> "StartsWith"
      [] op = "StartsWith" -> "EndsWith"
      [] op = "EndsWith" -> "GreaterThan"
      [] op = "GreaterThan" -> "LessThan"
      [] op = "LessThan" -> "IsNotNull"
      [] op = "IsNull" -> "IsNotNull"
      [] op = "IsNotNull" -> "Equals"

FilterOp_next(op) ==
    CASE op = "Equals" -> "NotEquals"
      [] op = "NotEquals" -> "Contains"
      [] op = "Contains" -> "StartsWith"
      [] op = "StartsWith" -> "EndsWith"
      [] op = "EndsWith" -> "GreaterThan"
      [] op = "GreaterThan" -> "LessThan"
      [] op = "LessThan" -> "IsNull"
      [] op = "IsNull" -> "IsNotNull"
      [] op = "IsNotNull" -> "Equals"

FilterOp_prev(op) ==
    CASE op = "Equals" -> "IsNotNull"
      [] op = "NotEquals" -> "Equals"
      [] op = "Contains" -> "NotEquals"
      [] op = "StartsWith" -> "Contains"
      [] op = "EndsWith" -> "StartsWith"
      [] op = "GreaterThan" -> "EndsWith"
      [] op = "LessThan" -> "GreaterThan"
      [] op = "IsNull" -> "LessThan"
      [] op = "IsNotNull" -> "IsNull"

\* needs_value() that is false for IsNull only
needs_value_OnlyIsNull(op) == op # "IsNull"

needs_value(op) == op \notin { "IsNull", "IsNotNull" }

FilterCondition(attribute_name, operator, value) ==
    [attribute_name |-> attribute_name, operator |-> operator, value |-> value]

(***************************************************************************)
(* The catalog the server holds (models/entity.rs: EntityMetadata, by      *)
(* logical name) and the order of attribute names.                         *)
(***************************************************************************)
EntityMetadata(logical_name, entity_set_name) ==
    [logical_name |-> logical_name, entity_set_name |-> entity_set_name]
NoEntity == [some |-> FALSE, v |-> EntityMetadata("", NoneS)]
SomeEntity(e) == [some |-> TRUE, v |-> e]

\* get_entities(): the second entity has no EntitySetName
Catalog ==
    << EntityMetadata("account", SomeS("accounts")), EntityMetadata("contact", NoneS) >>
\* get_entity_attributes(logical_name), in the order the server sends them
ServerAttributes(logical_name) ==
    IF logical_name = "account" THEN << "status", "name" >> ELSE << "fullname" >>
AttributeOrder == << "fullname", "name", "status" >>
AttributeRank(n) == CHOOSE i \in 1..Len(AttributeOrder) : AttributeOrder[i] = n
\* attrs.sort_by(|a, b| a.logical_name.cmp(&b.logical_name))
SortAttributes(attrs) == SortSeq(attrs, LAMBDA x, y : AttributeRank(x) < AttributeRank(y))

\* entity.entity_set_name.clone().unwrap_or_else(|| format!("{}s", logical_name))
EntitySetOf(e) ==
    IF e.entity_set_name.some THEN << e.entity_set_name.v >> ELSE << e.logical_name, "s" >>

(***************************************************************************)
(* ui/app.rs: App.  client is the record of the calls the handler of the   *)
(* current key has made on the DataverseClient, each with its answer.      *)
(***************************************************************************)
DefaultTop == 50

AppNew ==
    [client |-> << >>,
     state |-> "Loading", view |-> "Entities", error |-> NoneS,
     key_bindings |-> "Arrows", input_mode |-> "Normal",
     entities |-> << >>, filtered_entities |-> << >>, entity_index |-> 0,
     selected_entity |-> NoEntity, entity_attributes |-> << >>,
     filtered_attributes |-> << >>, attribute_index |-> 0,
     entity_tab |-> "Attributes",
     fetchxml_query |-> << >>, fetchxml_cursor |-> 0,
     query_mode |-> "Columns", query_selected_columns |-> << >>,
     query_column_index |-> 0, query_order_by |-> NoneN, query_order_desc |-> FALSE,
     query_top |-> SomeN(DefaultTop), query_filter_attr |-> NoneN,
     query_filter_op |-> "Equals", query_filter_value |-> << >>,
     query_filters |-> << >>, query_filter_index |-> 0,
     query_result |-> QueryResultDefault, query_result_index |-> 0,
     selected_record_index |-> NoneN, record_detail_index |-> 0,
     environment_index |-> 0,
     should_quit |-> FALSE]

\* one call on the client and its answer
Call(a, by, op, url, resp) ==
    [a EXCEPT !.client = Append(@, [by |-> by, op |-> op, url |-> url, ok |-> resp.ok,
                                    json |-> resp.json])]
Ok(json) == [ok |-> TRUE, json |-> json]
Err == [ok |-> FALSE, json |-> JAbsent]

\* (0..n).collect()
Range(n) == [i \in 1..n |-> i - 1]
\* vec.get(i) is Some
InVec(vec, i) == i >= 0 /\ i < Len(vec)
\* vec.remove(i)
RemoveAt(vec, i) == SubSeq(vec, 1, i) \o SubSeq(vec, i + 2, Len(vec))

load_entities(a, resp) ==
    LET a1 == Call([a EXCEPT !.state = "Loading", !.error = NoneS],
                   "load_entities", "get_entities", << >>, resp)
    IN  IF resp.ok
        THEN [a1 EXCEPT !.filtered_entities = Range(Len(Catalog)),
                        !.entities = Catalog, !.state = "Ready"]
        ELSE [a1 EXCEPT !.error = SomeS("Failed to load entities"), !.state = "Error"]

\* load_entity_detail sizing the flags by the attribute list it replaces
load_entity_detail_FlagsOfOldList(a, logical_name, resp) ==
    LET a1 == Call([a EXCEPT !.state = "Loading", !.error = NoneS],
                   "load_entity_detail", "get_entity_attributes", << logical_name >>, resp)
        attrs == SortAttributes(ServerAttributes(logical_name))
    IN  IF ~resp.ok
        THEN [a1 EXCEPT !.error = SomeS("Failed to load attributes"), !.state = "Error"]
        ELSE [a1 EXCEPT
                !.filtered_attributes = Range(Len(attrs)),
                !.entity_attributes = attrs,
                !.attribute_index = 0,
                !.entity_tab = "Attributes",
                !.query_selected_columns = [i \in 1..Len(a.entity_attributes) |-> FALSE],
                !.query_column_index = 0,
                !.query_order_by = NoneN,
                !.query_order_desc = FALSE,
                !.query_filters = << >>,
                !.query_filter_index = 0,
                !.query_result = QueryResultDefault,
                !.query_result_index = 0,
                !.query_mode = "Columns",
                !.state = "Ready"]

load_entity_detail(a, logical_name, resp) ==
    LET a1 == Call([a EXCEPT !.state = "Loading", !.error = NoneS],
                   "load_entity_detail", "get_entity_attributes", << logical_name >>, resp)
        attrs == SortAttributes(ServerAttributes(logical_name))
    IN  IF ~resp.ok
        THEN [a1 EXCEPT !.error = SomeS("Failed to load attributes"), !.state = "Error"]
        ELSE [a1 EXCEPT
                !.filtered_attributes = Range(Len(attrs)),
                !.entity_attributes = attrs,
                !.attribute_index = 0,
                !.entity_tab = "Attributes",
                !.query_selected_columns = [i \in 1..Len(attrs) |-> FALSE],
                !.query_column_index = 0,
                !.query_order_by = NoneN,
                !.query_order_desc = FALSE,
                !.query_filters = << >>,
                !.query_filter_index = 0,
                !.query_result = QueryResultDefault,
                !.query_result_index = 0,
                !.query_mode = "Columns",
                !.state = "Ready"]

get_selected_entity(a) ==
    IF InVec(a.filtered_entities, a.entity_index)
       /\ InVec(a.entities, a.filtered_entities[a.entity_index + 1])
    THEN SomeEntity(a.entities[a.filtered_entities[a.entity_index + 1] + 1])
    ELSE NoEntity

enter_entity_detail(a) ==
    IF get_selected_entity(a).some
    THEN [a EXCEPT !.selected_entity = get_selected_entity(a), !.view = "EntityDetail"]
    ELSE a

enter_record_detail(a) ==
    IF a.query_mode = "Results" /\ Len(a.query_result.rows) # 0
    THEN [a EXCEPT !.selected_record_index = SomeN(a.query_result_index),
                   !.view = "RecordDetail", !.record_detail_index = 0]
    ELSE a

\* config.environments: main adds the environment of the command line to the
\* list it loads, so the list is never empty
ConfigEnvironments == << "org" >>

\* how connecting to an environment ends: AzureAuthenticator::new fails, or
\* test_connection fails, or both succeed
AuthOutcomes == { "NoCredential", "NoToken", "Connected" }

\* switch_environment(url); resp answers the get_entities of load_entities
switch_environment(a, auth, resp) ==
    LET a1 == [a EXCEPT !.state = "Loading", !.error = NoneS]
    IN  CASE auth = "NoCredential" -> a1
          [] auth = "NoToken" ->
                [a1 EXCEPT !.error = SomeS("Connection failed"), !.state = "Error"]
          [] OTHER ->
                [load_entities(a1, resp) EXCEPT !.view = "Entities", !.state = "Ready"]

go_back(a) ==
    CASE a.view = "EntityDetail" -> [a EXCEPT !.view = "Entities"]
      [] a.view = "RecordDetail" ->
            [a EXCEPT !.view = "EntityDetail", !.selected_record_index = NoneN]
      [] OTHER -> a

(***************************************************************************)
(* ui/app.rs: the guided query builder                                     *)
(***************************************************************************)
\* the $select list: the names of the flagged attributes, by attribute index
SelectOf(a) ==
    LET RECURSIVE Walk(_)
        Walk(i) ==
            IF i > Len(a.query_selected_columns) THEN << >>
            ELSE IF a.query_selected_columns[i] /\ InVec(a.entity_attributes, i - 1)
            THEN << << a.entity_attributes[i] >> >> \o Walk(i + 1)
            ELSE Walk(i + 1)
    IN  Walk(1)

\* the rendered fragment of every active filter, in list order
FilterPartsOf(a) ==
    [i \in 1..Len(a.query_filters) |->
        to_odata(a.query_filters[i].operator, a.query_filters[i].attribute_name,
                 a.query_filters[i].value)]

\* GuidedUrl joining the filter fragments with " or "
GuidedUrl_JoinsWithOr(a) ==
    LET entity_set == EntitySetOf(a.selected_entity.v)
        select == SelectOf(a)
        filter_parts == FilterPartsOf(a)
        p1 == IF Len(select) # 0
              THEN << << "$select=" >> \o Join(select, ",") >> ELSE << >>
        p2 == IF Len(filter_parts) # 0
              THEN << << "$filter=" >> \o Join(filter_parts, " or ") >> ELSE << >>
        p3 == IF a.query_order_by.some /\ InVec(a.entity_attributes, a.query_order_by.v)
              THEN << << "$orderby=", a.entity_attributes[a.query_order_by.v + 1] >>
                      \o (IF a.query_order_desc THEN << " desc" >> ELSE << >>) >>
              ELSE << >>
        p4 == IF a.query_top.some THEN << << "$top=", ToString(a.query_top.v) >> >>
              ELSE << >>
        parts == p1 \o p2 \o p3 \o p4
    IN  IF Len(parts) = 0 THEN entity_set
        ELSE entity_set \o << "?" >> \o Join(parts, "&")

\* the URL of a guided query (execute_guided_query, up to the request)
GuidedUrl(a) ==
    LET entity_set == EntitySetOf(a.selected_entity.v)
        select == SelectOf(a)
        filter_parts == FilterPartsOf(a)
        p1 == IF Len(select) # 0
              THEN << << "$select=" >> \o Join(select, ",") >> ELSE << >>
        p2 == IF Len(filter_parts) # 0
              THEN << << "$filter=" >> \o Join(filter_parts, " and ") >> ELSE << >>
        p3 == IF a.query_order_by.some /\ InVec(a.entity_attributes, a.query_order_by.v)
              THEN << << "$orderby=", a.entity_attributes[a.query_order_by.v + 1] >>
                      \o (IF a.query_order_desc THEN << " desc" >> ELSE << >>) >>
              ELSE << >>
        p4 == IF a.query_top.some THEN << << "$top=", ToString(a.query_top.v) >> >>
              ELSE << >>
        parts == p1 \o p2 \o p3 \o p4
    IN  IF Len(parts) = 0 THEN entity_set
        ELSE entity_set \o << "?" >> \o Join(parts, "&")

\* execute_guided_query going back to the column section when the request fails
execute_guided_query_FailureToColumns(a, resp) ==
    IF ~a.selected_entity.some
    THEN [a EXCEPT !.query_result.error = SomeS("No entity selected")]
    ELSE LET a1 == Call([a EXCEPT !.state = "Loading", !.error = NoneS],
                        "execute_guided_query", "execute_query", GuidedUrl(a), resp)
         IN  IF resp.ok
             THEN [a1 EXCEPT
                     !.query_result = [from_json(resp.json) EXCEPT
                                          !.raw_json = to_string_pretty(resp.json)],
                     !.query_result_index = 0,
                     !.query_mode = "Results",
                     !.state = "Ready"]
             ELSE [a1 EXCEPT !.query_result.error = SomeS("Query failed"),
                             !.query_mode = "Columns",
                             !.state = "Ready"]

execute_guided_query(a, resp) ==
    IF ~a.selected_entity.some
    THEN [a EXCEPT !.query_result.error = SomeS("No entity selected")]
    ELSE LET a1 == Call([a EXCEPT !.state = "Loading", !.error = NoneS],
                        "execute_guided_query", "execute_query", GuidedUrl(a), resp)
         IN  IF resp.ok
             THEN [a1 EXCEPT
                     !.query_result = [from_json(resp.json) EXCEPT
                                          !.raw_json = to_string_pretty(resp.json)],
                     !.query_result_index = 0,
                     !.query_mode = "Results",
                     !.state = "Ready"]
             ELSE [a1 EXCEPT !.query_result.error = SomeS("Query failed"),
                             !.state = "Ready"]

\* load_next_page keeping the old link when the new page has none
load_next_page_KeepsLink(a, resp) ==
    IF ~a.query_result.next_link.some THEN a
    ELSE LET a1 == Call([a EXCEPT !.state = "Loading", !.error = NoneS],
                        "load_next_page", "execute_query",
                        << a.query_result.next_link.v >>, resp)
             next_result == from_json(resp.json)
         IN  IF resp.ok
             THEN [a1 EXCEPT
                     !.query_result.rows = @ \o next_result.rows,
                     !.query_result.next_link =
                         IF next_result.next_link.some THEN next_result.next_link ELSE @,
                     !.query_result.raw_json = to_string_pretty(resp.json),
                     !.state = "Ready"]
             ELSE [a1 EXCEPT !.error = SomeS("Failed to load next page"),
                             !.state = "Ready"]

\* load_next_page setting the state before it looks for the link
load_next_page_LoadingWithoutLink(a, resp) ==
    IF ~a.query_result.next_link.some
    THEN [a EXCEPT !.state = "Loading", !.error = NoneS]
    ELSE LET a1 == Call([a EXCEPT !.state = "Loading", !.error = NoneS],
                        "load_next_page", "execute_query",
                        << a.query_result.next_link.v >>, resp)
             next_result == from_json(resp.json)
         IN  IF resp.ok
             THEN [a1 EXCEPT
                     !.query_result.rows = @ \o next_result.rows,
                     !.query_result.next_link = next_result.next_link,
                     !.query_result.raw_json = to_string_pretty(resp.json),
                     !.state = "Ready"]
             ELSE [a1 EXCEPT !.error = SomeS("Failed to load next page"),
                             !.state = "Ready"]

\* load_next_page forgetting the link when the request fails
load_next_page_FailureDropsLink(a, resp) ==
    IF ~a.query_result.next_link.some THEN a
    ELSE LET a1 == Call([a EXCEPT !.state = "Loading", !.error = NoneS],
                        "load_next_page", "execute_query",
                        << a.query_result.next_link.v >>, resp)
             next_result == from_json(resp.json)
         IN  IF resp.ok
             THEN [a1 EXCEPT
                     !.query_result.rows = @ \o next_result.rows,
                     !.query_result.next_link = next_result.next_link,
                     !.query_result.raw_json = to_string_pretty(resp.json),
                     !.state = "Ready"]
             ELSE [a1 EXCEPT !.error = SomeS("Failed to load next page"),
                             !.query_result.next_link = NoneS,
                             !.state = "Ready"]

load_next_page(a, resp) ==
    IF ~a.query_result.next_link.some THEN a
    ELSE LET a1 == Call([a EXCEPT !.state = "Loading", !.error = NoneS],
                        "load_next_page", "execute_query",
                        << a.query_result.next_link.v >>, resp)
             next_result == from_json(resp.json)
         IN  IF resp.ok
             THEN [a1 EXCEPT
                     !.query_result.rows = @ \o next_result.rows,
                     !.query_result.next_link = next_result.next_link,
                     !.query_result.raw_json = to_string_pretty(resp.json),
                     !.state = "Ready"]
             ELSE [a1 EXCEPT !.error = SomeS("Failed to load next page"),
                             !.state = "Ready"]

toggle_query_column(a) ==
    IF InVec(a.query_selected_columns, a.query_column_index)
    THEN [a EXCEPT !.query_selected_columns[a.query_column_index + 1] = ~@]
    ELSE a

select_all_columns(a) ==
    [a EXCEPT !.query_selected_columns = [i \in DOMAIN @ |-> TRUE]]

clear_column_selections(a) ==
    [a EXCEPT !.query_selected_columns = [i \in DOMAIN @ |-> FALSE]]

add_filter(a) ==
    IF a.query_filter_attr.some /\ InVec(a.entity_attributes, a.query_filter_attr.v)
    THEN [a EXCEPT
            !.query_filters =
                Append(@, FilterCondition(a.entity_attributes[a.query_filter_attr.v + 1],
                                          a.query_filter_op, a.query_filter_value)),
            !.query_filter_value = << >>,
            !.query_filter_attr = NoneN]
    ELSE a

\* remove_filter popping the last condition instead of the one under the cursor
remove_filter_RemovesLast(a) ==
    IF Len(a.query_filters) # 0 /\ a.query_filter_index < Len(a.query_filters)
    THEN [a EXCEPT
            !.query_filters = RemoveAt(@, Len(a.query_filters) - 1),
            !.query_filter_index = IF @ > 0 THEN @ - 1 ELSE @]
    ELSE a

remove_filter(a) ==
    IF Len(a.query_filters) # 0 /\ a.query_filter_index < Len(a.query_filters)
    THEN [a EXCEPT
            !.query_filters = RemoveAt(@, a.query_filter_index),
            !.query_filter_index = IF @ > 0 THEN @ - 1 ELSE @]
    ELSE a

\* clear_query without self.query_filters.clear()
clear_query_KeepsFilters(a) ==
    [a EXCEPT
        !.query_selected_columns = [i \in DOMAIN @ |-> FALSE],
        !.query_order_by = NoneN,
        !.query_order_desc = FALSE,
        !.query_top = SomeN(DefaultTop),
        !.query_result = QueryResultDefault,
        !.query_result_index = 0,
        !.query_mode = "Columns"]

clear_query(a) ==
    [a EXCEPT
        !.query_selected_columns = [i \in DOMAIN @ |-> FALSE],
        !.query_filters = << >>,
        !.query_order_by = NoneN,
        !.query_order_desc = FALSE,
        !.query_top = SomeN(DefaultTop),
        !.query_result = QueryResultDefault,
        !.query_result_index = 0,
        !.query_mode = "Columns"]

\* the entity of the catalog cache with this logical name, if any
FindEntity(a, logical_name) ==
    LET hits == { i \in 1..Len(a.entities) : a.entities[i].logical_name = logical_name }
    IN  IF hits = {} THEN NoEntity
        ELSE SomeEntity(a.entities[CHOOSE i \in hits : \A j \in hits : i <= j])

navigate_to_related_record(a, attrs_resp, resp) ==
    IF ~a.selected_record_index.some THEN a
    ELSE LET key == << a.selected_record_index.v, a.record_detail_index >>
         IN  IF key \notin DOMAIN a.query_result.lookups THEN a
             ELSE
             LET lookup == a.query_result.lookups[key]
                 target == FindEntity(a, lookup.logical_name)
                 a1 == load_entity_detail(a, target.v.logical_name, attrs_resp)
                 a2 == [a1 EXCEPT !.selected_entity = target]
                 url == EntitySetOf(target.v) \o << "(", lookup.id, ")" >>
                 a3 == Call([a2 EXCEPT !.state = "Loading", !.error = NoneS],
                            "navigate_to_related_record", "execute_query", url, resp)
                 wrapped == JObj(<< "value" >> :> JArr(<< resp.json >>))
             IN  IF ~target.some
                 THEN [a EXCEPT !.error = SomeS("Entity metadata not found")]
                 ELSE IF resp.ok
                 THEN [a3 EXCEPT
                         !.query_result = [from_json(wrapped) EXCEPT
                                              !.raw_json = to_string_pretty(resp.json)],
                         !.selected_record_index = SomeN(0),
                         !.record_detail_index = 0,
                         !.view = "RecordDetail",
                         !.state = "Ready"]
                 ELSE [a3 EXCEPT !.error = SomeS("Failed to fetch related record"),
                                 !.state = "Ready"]

(***************************************************************************)
(* FetchXML passthrough.  The text is a sequence of tokens: the two        *)
(* openers, the two quote characters, and names that hold neither a quote  *)
(* nor '<'.                                                                *)
(***************************************************************************)
EntityOpenDq == "<entity name=\""
EntityOpenSq == "<entity name='"
QuoteDq == "\""
QuoteSq == "'"

\* the least position >= from of a token of S in text, 0 if there is none
FirstIndex(text, S, from) ==
    LET hits == { i \in from..Len(text) : text[i] \in S }
    IN  IF hits = {} THEN 0 ELSE CHOOSE i \in hits : \A j \in hits : i <= j

\* &rest[..end] where rest starts after the opener at position start and the
\* closing quote is found in the token at position stop: a later opener of the
\* same kind holds the quote character as its last character
NameBetween(text, start, stop, quote) ==
    SubSeq(text, start + 1, stop - 1)
        \o (IF text[stop] = quote THEN << >> ELSE << "<entity name=" >>)

\* the scraper taking the rest of the text when the attribute is never closed
FetchEntityName_UnclosedToEnd(text) ==
    LET dq == FirstIndex(text, { EntityOpenDq }, 1)
        sq == FirstIndex(text, { EntityOpenSq }, 1)
        dqEnd == FirstIndex(text, { QuoteDq, EntityOpenDq }, dq + 1)
        sqEnd == FirstIndex(text, { QuoteSq, EntityOpenSq }, sq + 1)
        none == [some |-> FALSE, v |-> << >>]
    IN  IF dq # 0
        THEN IF dqEnd # 0
             THEN [some |-> TRUE, v |-> NameBetween(text, dq, dqEnd, QuoteDq)]
             ELSE [some |-> TRUE, v |-> SubSeq(text, dq + 1, Len(text))]
        ELSE IF sq # 0
        THEN IF sqEnd # 0
             THEN [some |-> TRUE, v |-> NameBetween(text, sq, sqEnd, QuoteSq)]
             ELSE none
        ELSE none

\* the entity name scraped from the text (execute_fetch_xml_query 1629-1645)
FetchEntityName(text) ==
    LET dq == FirstIndex(text, { EntityOpenDq }, 1)
        sq == FirstIndex(text, { EntityOpenSq }, 1)
        dqEnd == FirstIndex(text, { QuoteDq, EntityOpenDq }, dq + 1)
        sqEnd == FirstIndex(text, { QuoteSq, EntityOpenSq }, sq + 1)
        none == [some |-> FALSE, v |-> << >>]
    IN  IF dq # 0
        THEN IF dqEnd # 0
             THEN [some |-> TRUE, v |-> NameBetween(text, dq, dqEnd, QuoteDq)]
             ELSE none
        ELSE IF sq # 0
        THEN IF sqEnd # 0
             THEN [some |-> TRUE, v |-> NameBetween(text, sq, sqEnd, QuoteSq)]
             ELSE none
        ELSE none

\* urlencoding::encode, token by token
UrlEncodeToken(t) ==
    CASE t = EntityOpenDq -> "%3Centity%20name%3D%22"
      [] t = EntityOpenSq -> "%3Centity%20name%3D%27"
      [] t = QuoteDq -> "%22"
      [] t = QuoteSq -> "%27"
      [] OTHER -> t
UrlEncode(text) == [i \in 1..Len(text) |-> UrlEncodeToken(text[i])]

\* the entity set a FetchXML query is sent to (execute_fetch_xml_query 1655-1658)
FetchEntitySet(a, logical_name) ==
    LET hits == { i \in 1..Len(a.entities) : << a.entities[i].logical_name >> = logical_name }
        e == a.entities[CHOOSE i \in hits : \A j \in hits : i <= j]
    IN  IF hits # {} /\ e.entity_set_name.some THEN << e.entity_set_name.v >>
        ELSE logical_name \o << "s" >>

\* resp is the answer of DataverseClient::execute_fetch_xml: the parsed body, or
\* an error (transport, status, or a body that is not JSON)
execute_fetch_xml_query(a, resp) ==
    IF Len(a.fetchxml_query) = 0 THEN a
    ELSE LET a1 == [a EXCEPT !.state = "Loading", !.error = NoneS]
             name == FetchEntityName(a.fetchxml_query)
             url == FetchEntitySet(a, name.v) \o << "?fetchXml=" >>
                        \o UrlEncode(a.fetchxml_query)
             a2 == Call(a1, "execute_fetch_xml_query", "execute_fetch_xml", url, resp)
         IN  IF ~name.some
             THEN [a1 EXCEPT
                     !.error = SomeS("Could not find <entity name='...'> in FetchXML"),
                     !.state = "Ready"]
             ELSE IF resp.ok
             THEN [a2 EXCEPT !.query_result = from_json(resp.json),
                             !.view = "EntityDetail",
                             !.entity_tab = "Query",
                             !.query_mode = "Results",
                             !.state = "Ready"]
             ELSE [a2 EXCEPT !.error = SomeS("FetchXML execution failed"),
                             !.state = "Ready"]

\* String::insert(idx, c)
InsertAt(text, idx, c) == SubSeq(text, 1, idx) \o << c >> \o SubSeq(text, idx + 1, Len(text))

handle_fetchxml_mode(a, key, resp) ==
    CASE key = "Enter" ->
            [execute_fetch_xml_query(a, resp) EXCEPT !.input_mode = "Normal"]
      [] key = "Backspace" ->
            IF a.fetchxml_cursor > 0
            THEN [a EXCEPT !.fetchxml_query = RemoveAt(@, a.fetchxml_cursor - 1),
                           !.fetchxml_cursor = @ - 1]
            ELSE a
      [] key = "Left" ->
            IF a.fetchxml_cursor > 0 THEN [a EXCEPT !.fetchxml_cursor = @ - 1] ELSE a
      [] key = "Right" ->
            IF a.fetchxml_cursor < Len(a.fetchxml_query)
            THEN [a EXCEPT !.fetchxml_cursor = @ + 1] ELSE a
      [] key = "Esc" -> [a EXCEPT !.input_mode = "Normal", !.view = "Entities"]
      [] key \in { "Up", "Down", "Tab", "BackTab", "F5" } -> a
      [] OTHER ->
            [a EXCEPT !.fetchxml_query = InsertAt(@, a.fetchxml_cursor, key),
                      !.fetchxml_cursor = @ + 1]

(***************************************************************************)
(* ui/input.rs and ui/app.rs: navigation                                   *)
(***************************************************************************)
is_up(a, key) == key = "Up" \/ (a.key_bindings = "Vim" /\ key = "k")
is_down(a, key) == key = "Down" \/ (a.key_bindings = "Vim" /\ key = "j")
is_left(a, key) == key = "Left" \/ (a.key_bindings = "Vim" /\ key = "h")
is_right(a, key) == key = "Right" \/ (a.key_bindings = "Vim" /\ key = "l")

\* if index > 0 { index -= 1 }
Dec(i) == IF i > 0 THEN i - 1 ELSE i
\* if !list.is_empty() && index < list.len() - 1 { index += 1 }
Inc(i, len) == IF len # 0 /\ i < len - 1 THEN i + 1 ELSE i

navigate_up(a) ==
    CASE a.view = "Entities" -> [a EXCEPT !.entity_index = Dec(@)]
      [] a.view = "EntityDetail" /\ a.entity_tab = "Attributes" ->
            [a EXCEPT !.attribute_index = Dec(@)]
      [] a.view = "EntityDetail" /\ a.entity_tab = "Query" /\ a.query_mode = "Columns" ->
            [a EXCEPT !.query_column_index = Dec(@)]
      [] a.view = "EntityDetail" /\ a.entity_tab = "Query" /\ a.query_mode = "Filter" ->
            [a EXCEPT !.query_filter_index = Dec(@)]
      [] a.view = "EntityDetail" /\ a.entity_tab = "Query" /\ a.query_mode = "Results" ->
            [a EXCEPT !.query_result_index = Dec(@)]
      [] a.view = "RecordDetail" -> [a EXCEPT !.record_detail_index = Dec(@)]
      [] a.view = "Environments" -> [a EXCEPT !.environment_index = Dec(@)]
      [] OTHER -> a

navigate_down(a) ==
    CASE a.view = "Entities" ->
            [a EXCEPT !.entity_index = Inc(@, Len(a.filtered_entities))]
      [] a.view = "EntityDetail" /\ a.entity_tab = "Attributes" ->
            [a EXCEPT !.attribute_index = Inc(@, Len(a.filtered_attributes))]
      [] a.view = "EntityDetail" /\ a.entity_tab = "Query" /\ a.query_mode = "Columns" ->
            [a EXCEPT !.query_column_index = Inc(@, Len(a.filtered_attributes))]
      [] a.view = "EntityDetail" /\ a.entity_tab = "Query" /\ a.query_mode = "Filter" ->
            [a EXCEPT !.query_filter_index = Inc(@, Len(a.query_filters))]
      [] a.view = "EntityDetail" /\ a.entity_tab = "Query" /\ a.query_mode = "Results" ->
            [a EXCEPT !.query_result_index = Inc(@, Len(a.query_result.rows))]
      [] a.view = "RecordDetail" ->
            [a EXCEPT !.record_detail_index = Inc(@, Len(a.query_result.columns))]
      [] a.view = "Environments" ->
            [a EXCEPT !.environment_index = Inc(@, Len(ConfigEnvironments))]
      [] OTHER -> a

next_tab(a) ==
    IF a.view = "EntityDetail"
    THEN [a EXCEPT !.entity_tab =
            CASE @ = "Attributes" -> "Relationships"
              [] @ = "Relationships" -> "Metadata"
              [] @ = "Metadata" -> "Query"
              [] @ = "Query" -> "Attributes"]
    ELSE a

prev_tab(a) ==
    IF a.view = "EntityDetail"
    THEN [a EXCEPT !.entity_tab =
            CASE @ = "Attributes" -> "Query"
              [] @ = "Relationships" -> "Attributes"
              [] @ = "Metadata" -> "Relationships"
              [] @ = "Query" -> "Metadata"]
    ELSE a

(***************************************************************************)
(* main.rs: handle_normal_mode.  A key is its name ("Enter", "Tab", "F5",  *)
(* ...) or, for KeyCode::Char(c), the character.                           *)
(***************************************************************************)
NamedKeys ==
    { "Enter", "Esc", "Tab", "BackTab", "Backspace", "F5", "Up", "Down", "Left", "Right" }

\* the Tab arm leaving Options for Columns
NextSection_OptionsToColumns(mode) ==
    CASE mode = "Columns" -> "Filter"
      [] mode = "Filter" -> "Options"
      [] mode = "Options" -> "Columns"
      [] mode = "OrderBy" -> "Results"
      [] mode = "Results" -> "Columns"

\* the Tab arm of the query tab: the next section
NextSection(mode) ==
    CASE mode = "Columns" -> "Filter"
      [] mode = "Filter" -> "Options"
      [] mode = "Options" -> "Results"
      [] mode = "OrderBy" -> "Results"
      [] mode = "Results" -> "Columns"

\* the keys of the query tab (main.rs 297-386)
QueryTabKey(a, key, resp) ==
    CASE key = "Enter" ->
            (CASE a.query_mode = "Columns" ->
                    [a EXCEPT !.query_filter_attr = SomeN(a.query_column_index),
                              !.query_mode = "Filter"]
               [] a.query_mode = "Filter" -> add_filter(a)
               [] a.query_mode = "Results" -> enter_record_detail(a)
               [] OTHER -> execute_guided_query(a, resp))
      [] key = "d" -> IF a.query_mode = "Filter" THEN remove_filter(a) ELSE a
      [] key = "o" ->
            IF a.query_mode = "Filter"
            THEN [a EXCEPT !.query_filter_op = FilterOp_next(@)] ELSE a
      [] key = "O" ->
            IF a.query_mode = "Filter"
            THEN [a EXCEPT !.query_filter_op = FilterOp_prev(@)] ELSE a
      [] key = "Backspace" ->
            IF a.query_mode = "Filter" /\ Len(a.query_filter_value) > 0
            THEN [a EXCEPT !.query_filter_value = SubSeq(@, 1, Len(@) - 1)] ELSE a
      [] key = "F5" -> execute_guided_query(a, resp)
      [] key = "Tab" -> [a EXCEPT !.query_mode = NextSection(@)]
      [] key = "Esc" ->
            IF a.query_mode = "Filter" /\ a.query_filter_attr.some
            THEN [a EXCEPT !.query_filter_attr = NoneN] ELSE go_back(a)
      [] key \in NamedKeys \ { "Enter", "Backspace", "F5", "Tab", "Esc" } -> a
      [] OTHER ->
            IF a.query_mode = "Filter" /\ a.query_filter_attr.some
            THEN [a EXCEPT !.query_filter_value = Append(@, key)]
            ELSE CASE key = " " -> toggle_query_column(a)
                   [] key = "a" -> select_all_columns(a)
                   [] key = "c" -> clear_query(a)
                   [] key = "n" ->
                        IF a.query_mode = "Results" THEN load_next_page(a, resp) ELSE a
                   [] OTHER -> a

handle_normal_mode(a, key, auth, attrs_resp, resp) ==
    CASE key = "q" ->
            IF a.view = "EntityDetail" THEN go_back(a) ELSE [a EXCEPT !.should_quit = TRUE]
      [] key = "Esc" -> go_back(a)
      [] key = "1" ->
            IF a.view # "Entities" /\ a.view # "EntityDetail"
            THEN [a EXCEPT !.view = "Entities"] ELSE a
      [] key = "E" -> [a EXCEPT !.view = "Environments"]
      [] key \in { "f", "F" } -> [a EXCEPT !.view = "FetchXML", !.input_mode = "FetchXML"]
      [] OTHER ->
            IF is_up(a, key) THEN navigate_up(a)
            ELSE IF is_down(a, key) THEN navigate_down(a)
            ELSE IF is_left(a, key) THEN prev_tab(a)
            ELSE IF is_right(a, key) THEN next_tab(a)
            ELSE IF a.view = "EntityDetail" /\ a.entity_tab = "Query"
            THEN QueryTabKey(a, key, resp)
            ELSE IF key = "Enter"
            THEN (CASE a.view = "Entities" ->
                        IF get_selected_entity(a).some
                        THEN load_entity_detail(enter_entity_detail(a),
                                                get_selected_entity(a).v.logical_name,
                                                attrs_resp)
                        ELSE a
                    [] a.view = "Environments" ->
                        IF InVec(ConfigEnvironments, a.environment_index)
                        THEN switch_environment(a, auth, attrs_resp)
                        ELSE a
                    [] a.view = "RecordDetail" ->
                        navigate_to_related_record(a, attrs_resp, resp)
                    [] OTHER -> a)
            ELSE IF key = "Tab" THEN next_tab(a)
            ELSE IF key = "BackTab" THEN prev_tab(a)
            ELSE a

\* one turn of the loop of run_app on a key press
run_app_key(a, key, auth, attrs_resp, resp) ==
    LET a0 == [a EXCEPT !.client = << >>]
    IN  CASE a.input_mode = "Normal" -> handle_normal_mode(a0, key, auth, attrs_resp, resp)
          [] a.input_mode = "FetchXML" -> handle_fetchxml_mode(a0, key, resp)

(***************************************************************************)
(* What the server may answer.                                             *)
(***************************************************************************)
RecA ==
    JObj((<< "name" >> :> JStr("A")) @@ (<< "status" >> :> JNum(1))
         @@ (<< "status", FormattedValueSuffix >> :> JStr("Active"))
         @@ (<< "@odata.etag" >> :> JStr("W1")))
RecB == JObj(<< "name" >> :> JStr("B"))
RecL ==
    JObj((<< "name" >> :> JNull) @@ (<< "_ownerid_value" >> :> JStr("guid1"))
         @@ (<< "_ownerid_value", LookupLogicalNameSuffix >> :> JStr("contact"))
         @@ (<< "_ownerid_value", FormattedValueSuffix >> :> JStr("Bob")))
NonObj == JStr("scalar")

\* a response body with the given top-level members (JAbsent: the member is missing)
Payload(value, link, cnt) ==
    LET present ==
            { m \in { << << "value" >>, value >>, << << "@odata.nextLink" >>, link >>,
                      << << "@odata.count" >>, cnt >> } : m[2].t # "absent" }
    IN  JObj([k \in { m[1] : m \in present } |->
                (CHOOSE m \in present : m[1] = k)[2]])

PMissing == Payload(JAbsent, JStr("L2"), JNum(3))
PEmptyLink == Payload(JArr(<< >>), JStr("L1"), JNum(7))
POne == Payload(JArr(<< RecA >>), JStr("L1"), JNum(2))
PTwo == Payload(JArr(<< RecB >>), JAbsent, JAbsent)
PLookup == Payload(JArr(<< RecL >>), JAbsent, JAbsent)
PMixed == Payload(JArr(<< NonObj, RecL >>), JAbsent, JAbsent)

\* the answers to a query: a transport error or a body
QueryAnswers ==
    { Err } \cup { Ok(p) : p \in { PMissing, PEmptyLink, POne, PTwo, PLookup, PMixed } }
\* the answers to get_entities and get_entity_attributes
MetadataAnswers == { Err, Ok(JAbsent) }

(***************************************************************************)
(* The state machine                                                       *)
(***************************************************************************)
\* app: the App; pc: where run_app is; key: the key press being handled;
\* parse_in, parse_out: a body and its QueryResult; qdef, qurl: a QueryDefinition
\* and its URL; inflight: the requests sent by a handler that run_app is awaiting;
\* fop: a FilterOp being cycled and rendered
VARIABLES app, pc, key, parse_in, parse_out, qdef, qurl, inflight, fop
vars == << app, pc, key, parse_in, parse_out, qdef, qurl, inflight, fop >>
harness == << parse_in, parse_out, qdef, qurl, fop >>

MaxRows == 2
MaxFilters == 2
MaxValueLen == 1
MaxFetchLen == 3
MaxSteps == 9

WithinBounds(a) ==
    /\ Len(a.query_result.rows) <= MaxRows
    /\ Len(a.query_filters) <= MaxFilters
    /\ Len(a.query_filter_value) <= MaxValueLen
    /\ Len(a.fetchxml_query) <= MaxFetchLen

\* no operator is being cycled
FilterOpIdle ==
    [start |-> "Equals", op |-> "Equals", dir |-> "none", steps |-> 0,
     seen |-> { "Equals" }, attr |-> "", value |-> << >>,
     rendered |-> FALSE, fragment |-> << >>, needs |-> FALSE]

HarnessInit ==
    /\ parse_in = JNull
    /\ parse_out = [done |-> FALSE, result |-> QueryResultDefault]
    /\ qdef = QueryDefinitionDefault
    /\ qurl = [done |-> FALSE, url |-> << >>]
    /\ fop = FilterOpIdle

Init == app = AppNew /\ pc = "start" /\ key = "" /\ inflight = << >> /\ HarnessInit

\* run_app: the initial load_entities
Start ==
    /\ pc = "start"
    /\ \E resp \in MetadataAnswers : app' = load_entities(app, resp)
    /\ pc' = "loop"
    /\ UNCHANGED << key, harness, inflight >>

\* run_app: one key press read and handled; the handler gets the answers of the
\* server to the calls it makes
KeyIn(k, auths, attrs_answers, answers) ==
    /\ key' = k
    /\ \E auth \in auths, attrs_resp \in attrs_answers, resp \in answers :
          /\ app' = run_app_key(app, k, auth, attrs_resp, resp)
          /\ WithinBounds(app')
    /\ pc' = IF app'.should_quit THEN "done" ELSE "loop"
    /\ UNCHANGED << harness, inflight >>

\* a key press in a session whose connections succeed
Key(k, attrs_answers, answers) == KeyIn(k, { "Connected" }, attrs_answers, answers)

\* keys whose handlers call the client
KeyEnter(answers) == pc = "loop" /\ Key("Enter", MetadataAnswers, answers)
KeyF5(answers) == pc = "loop" /\ Key("F5", { Err }, answers)
KeyN(answers) == pc = "loop" /\ Key("n", { Err }, answers)
\* keys whose handlers make no call
KeyQ == pc = "loop" /\ Key("q", { Err }, { Err })
KeyEsc == pc = "loop" /\ Key("Esc", { Err }, { Err })
Key1 == pc = "loop" /\ Key("1", { Err }, { Err })
KeyE == pc = "loop" /\ Key("E", { Err }, { Err })
KeyF == pc = "loop" /\ Key("f", { Err }, { Err })
KeyUp == pc = "loop" /\ Key("Up", { Err }, { Err })
KeyDown == pc = "loop" /\ Key("Down", { Err }, { Err })
KeyLeft == pc = "loop" /\ Key("Left", { Err }, { Err })
KeyRight == pc = "loop" /\ Key("Right", { Err }, { Err })
KeyTab == pc = "loop" /\ Key("Tab", { Err }, { Err })
KeyBackTab == pc = "loop" /\ Key("BackTab", { Err }, { Err })
KeyBackspace == pc = "loop" /\ Key("Backspace", { Err }, { Err })
KeyD == pc = "loop" /\ Key("d", { Err }, { Err })
KeyO == pc = "loop" /\ Key("o", { Err }, { Err })
KeyShiftO == pc = "loop" /\ Key("O", { Err }, { Err })
KeySpace == pc = "loop" /\ Key(" ", { Err }, { Err })
KeyA == pc = "loop" /\ Key("a", { Err }, { Err })
KeyC == pc = "loop" /\ Key("c", { Err }, { Err })
KeyX == pc = "loop" /\ Key("x", { Err }, { Err })
KeyOpenDq == pc = "loop" /\ Key(EntityOpenDq, { Err }, { Err })
KeyQuoteDq == pc = "loop" /\ Key(QuoteDq, { Err }, { Err })
KeyAccount == pc = "loop" /\ Key("account", { Err }, { Err })

\* run_app with every key of the model
Next ==
    \/ Start
    \/ KeyEnter(QueryAnswers) \/ KeyF5(QueryAnswers) \/ KeyN(QueryAnswers)
    \/ KeyQ \/ KeyEsc \/ Key1 \/ KeyF \/ KeyUp \/ KeyDown \/ KeyLeft \/ KeyRight
    \/ KeyTab \/ KeyBackTab \/ KeyBackspace \/ KeyD \/ KeyO \/ KeyShiftO
    \/ KeySpace \/ KeyA \/ KeyC \/ KeyX \/ KeyOpenDq \/ KeyQuoteDq \/ KeyAccount
Spec == Init /\ [][Next]_vars

\* a session on the results: executions, pages, record detail, related records, reset
NextResults ==
    \/ Start
    \/ KeyEnter(QueryAnswers) \/ KeyF5(QueryAnswers) \/ KeyN(QueryAnswers)
    \/ KeyC \/ KeyBackTab \/ KeyEsc
SpecResults == Init /\ [][NextResults]_vars

\* a session on the builder: sections, select all, execution, reset
BuilderAnswers == { Err, Ok(PTwo) }
NextBuilder ==
    \/ Start
    \/ KeyEnter(BuilderAnswers) \/ KeyF5(BuilderAnswers)
    \/ KeyTab \/ KeyA \/ KeyC
SpecBuilder == Init /\ [][NextBuilder]_vars

\* a session on the filters: the attribute, the value, the list, execution
NextFilters ==
    \/ Start
    \/ KeyEnter(BuilderAnswers) \/ KeyF5(BuilderAnswers)
    \/ KeyTab \/ KeyDown \/ KeyX
SpecFilters == Init /\ [][NextFilters]_vars

\* a session on the column selector: cursor, toggles, sections
NextColumns ==
    \/ Start
    \/ KeyEnter({ Err })
    \/ KeyTab \/ KeyUp \/ KeyDown \/ KeySpace
SpecColumns == Init /\ [][NextColumns]_vars

(***************************************************************************)
(* run_app with the await of a query drawn as two steps: the handler runs  *)
(* to client.execute_query(..).await, and later runs on with the answer.   *)
(***************************************************************************)
\* the handler of key k sends an execute or a page-continuation request first
Suspends(a, k) ==
    LET calls == run_app_key(a, k, "Connected", Err, Err).client
    IN  /\ calls # << >>
        /\ calls[1].by \in { "execute_guided_query", "load_next_page" }

\* run_app reading keys while a handler is still awaiting
CanReadKey_WhileAwaiting == pc \in { "loop", "await" }

\* run_app is at event::read: the handler of the last key has returned
CanReadKey == pc = "loop"

\* the key is read and its handler runs up to the await
Issue(k) ==
    /\ Suspends(app, k)
    /\ key' = k
    /\ app' = [app EXCEPT !.client = << >>, !.state = "Loading", !.error = NoneS]
    /\ LET call == run_app_key(app, k, "Connected", Err, Err).client[1]
       IN  inflight' = Append(inflight, [by |-> call.by, url |-> call.url])
    /\ pc' = "await"
    /\ UNCHANGED harness

IssueF5 == CanReadKey /\ Issue("F5")
IssueEnter == CanReadKey /\ Issue("Enter")
IssueN == CanReadKey /\ Issue("n")

\* the request resolves and the handler runs to its end
AsyncAnswers == { Err, Ok(PEmptyLink), Ok(POne) }
Resolve ==
    /\ pc = "await"
    /\ inflight # << >>
    /\ \E resp \in AsyncAnswers :
          /\ app' = run_app_key(app, key, "Connected", Err, resp)
          /\ WithinBounds(app')
    /\ inflight' = Tail(inflight)
    /\ pc' = IF app'.should_quit THEN "done" ELSE "loop"
    /\ UNCHANGED << key, harness >>

\* Enter where its handler sends no query
EnterNoQuery ==
    /\ CanReadKey
    /\ ~Suspends(app, "Enter")
    /\ Key("Enter", MetadataAnswers, { Err })

NextAsync ==
    \/ Start
    \/ EnterNoQuery \/ KeyBackTab \/ KeyTab \/ KeyA
    \/ IssueF5 \/ IssueEnter \/ IssueN
    \/ Resolve
SpecAsync == Init /\ [][NextAsync]_vars

\* a session that opens one entity after the other and begins a filter in between
NextSwitch ==
    \/ Start
    \/ KeyEnter({ Err })
    \/ KeyDown \/ KeyEsc \/ KeyBackTab \/ KeyO \/ KeyX
SpecSwitch == Init /\ [][NextSwitch]_vars

\* a session on the FetchXML input: text typed, erased and sent
FetchAnswers == { Err, Ok(POne) }
NextFetch ==
    \/ Start
    \/ KeyF
    \/ KeyOpenDq \/ KeyQuoteDq \/ KeyAccount \/ KeyBackspace
    \/ KeyEnter(FetchAnswers)
SpecFetch == Init /\ [][NextFetch]_vars

\* Enter where the metadata calls succeed and no query is answered
KeyEnterLoaded == pc = "loop" /\ Key("Enter", { Ok(JAbsent) }, { Err })
\* a session on the active filter list: append, cursor, removal, reset, switch
NextActive ==
    \/ Start
    \/ KeyEnterLoaded
    \/ KeyTab \/ KeyDown \/ KeyD \/ KeyC \/ KeyEsc
SpecActive == Init /\ [][NextActive]_vars

\* Enter where the metadata calls succeed and a FetchXML query gets one row
KeyEnterOneRow == pc = "loop" /\ Key("Enter", { Ok(JAbsent) }, { Ok(POne) })
\* a session on the result cursor: a FetchXML result, its next page, the
\* cursor, a FetchXML result again
NextCursor ==
    \/ Start
    \/ KeyEnterOneRow
    \/ KeyN({ Ok(PTwo) })
    \/ KeyDown
    \/ KeyF \/ KeyOpenDq \/ KeyAccount \/ KeyQuoteDq
SpecCursor == Init /\ [][NextCursor]_vars

\* Enter where connecting to an environment may fail in either way
KeyEnterConnecting == pc = "loop" /\ KeyIn("Enter", AuthOutcomes, MetadataAnswers, { Err })
\* a session on the environments: the list, a switch, the entities of the
\* environment, an entity opened
NextEnvironments ==
    \/ Start
    \/ KeyEnterConnecting
    \/ KeyE \/ Key1 \/ KeyDown \/ KeyBackTab \/ KeyEsc
SpecEnvironments == Init /\ [][NextEnvironments]_vars

(***************************************************************************)
(* QueryResult::from_json on its own: any body, then its result            *)
(***************************************************************************)
RecT == JObj((<< "status" >> :> JBool(TRUE)) @@ (<< "name" >> :> JArr(<< JNull >>))
             @@ (<< "value" >> :> JObj(<< >>)))
\* a formatted-value annotation that is no string
RecF == JObj((<< "status" >> :> JBool(FALSE)) @@ (<< "name" >> :> JStr(""))
             @@ (<< "status", FormattedValueSuffix >> :> JNum(7)))
\* a lookup annotation next to a null value, and one that is no string
RecN == JObj((<< "_ownerid_value" >> :> JNull)
             @@ (<< "_ownerid_value", LookupLogicalNameSuffix >> :> JStr("contact"))
             @@ (<< "name" >> :> JStr("guid2"))
             @@ (<< "name", LookupLogicalNameSuffix >> :> JNum(3)))
\* a lookup annotation on a column that is not named _..._value
RecP == JObj((<< "name" >> :> JStr("guid2"))
             @@ (<< "name", LookupLogicalNameSuffix >> :> JStr("account"))
             @@ (<< "name", FormattedValueSuffix >> :> JStr("Acme")))
ParseValues ==
    { JAbsent, JNull, JStr("oops"), JObj(<< "name" >> :> JStr("A")),
      JArr(<< >>), JArr(<< RecA >>), JArr(<< RecA, RecB >>), JArr(<< RecB, RecA >>),
      JArr(<< RecL >>), JArr(<< NonObj, RecL >>), JArr(<< RecT >>),
      JArr(<< RecF >>), JArr(<< RecN >>), JArr(<< RecP, RecL >>),
      JArr(<< RecL, NonObj, RecL >>) }
ParseLinks == { JAbsent, JStr("L1"), JNum(5) }
ParseCounts == { JAbsent, JNum(2), JNum(-1), JStr("2") }
Bodies ==
    { Payload(v, l, c) : v \in ParseValues, l \in ParseLinks, c \in ParseCounts }
        \cup { JNull, JArr(<< RecA >>) }

InitParse ==
    /\ app = AppNew /\ pc = "start" /\ key = "" /\ inflight = << >> /\ fop = FilterOpIdle
    /\ parse_in \in Bodies
    /\ parse_out = [done |-> FALSE, result |-> QueryResultDefault]
    /\ qdef = QueryDefinitionDefault
    /\ qurl = [done |-> FALSE, url |-> << >>]

Parse ==
    /\ ~parse_out.done
    /\ parse_out' = [done |-> TRUE, result |-> from_json(parse_in)]
    /\ UNCHANGED << app, pc, key, parse_in, qdef, qurl, inflight, fop >>
SpecParse == InitParse /\ [][Parse]_vars

(***************************************************************************)
(* QueryDefinition::build_url and clear on their own                       *)
(***************************************************************************)
Definitions ==
    [entity_name : { << "account" >> },
     entity_set_name : { << "accounts" >> },
     select : { << >>, << << "name" >> >>, << << "name" >>, << "status" >> >>,
                << << "status" >>, << "name" >> >> },
     filter : { << >>, to_odata("Equals", "name", << "x" >>) },
     order_by : { << >>, << "name" >>, << "name", " desc" >> },
     top : { NoneN, SomeN(0), SomeN(10) },
     skip : { NoneN, SomeN(5) }]

InitQuery ==
    /\ app = AppNew /\ pc = "start" /\ key = "" /\ inflight = << >> /\ fop = FilterOpIdle
    /\ parse_in = JNull
    /\ parse_out = [done |-> FALSE, result |-> QueryResultDefault]
    /\ qdef \in Definitions
    /\ qurl = [done |-> FALSE, url |-> << >>]

BuildUrl ==
    /\ ~qurl.done
    /\ qurl' = [done |-> TRUE, url |-> build_url(qdef)]
    /\ UNCHANGED << app, pc, key, parse_in, parse_out, qdef, inflight, fop >>

ClearDefinition ==
    /\ qdef # QueryDefinition_clear(qdef)
    /\ qdef' = QueryDefinition_clear(qdef)
    /\ qurl' = [done |-> FALSE, url |-> << >>]
    /\ UNCHANGED << app, pc, key, parse_in, parse_out, inflight, fop >>
SpecQuery == InitQuery /\ [][BuildUrl \/ ClearDefinition]_vars

(***************************************************************************)
(* FilterOp on its own: an operator is cycled with next or with prev, and  *)
(* rendered with an attribute and a value                                  *)
(***************************************************************************)
FilterAttrs == { "name", "status" }
FilterValues == { << >>, << "5" >>, << "it", "'", "s" >> }

InitFilterOp ==
    /\ app = AppNew /\ pc = "start" /\ key = "" /\ inflight = << >>
    /\ parse_in = JNull
    /\ parse_out = [done |-> FALSE, result |-> QueryResultDefault]
    /\ qdef = QueryDefinitionDefault
    /\ qurl = [done |-> FALSE, url |-> << >>]
    /\ \E o \in FilterOpSet, attr \in FilterAttrs, value \in FilterValues :
          fop = [start |-> o, op |-> o, dir |-> "none", steps |-> 0, seen |-> { o },
                 attr |-> attr, value |-> value,
                 rendered |-> FALSE, fragment |-> << >>, needs |-> FALSE]

OpNext ==
    /\ fop.dir \in { "none", "next" }
    /\ fop.steps < MaxSteps
    /\ fop' = [fop EXCEPT !.op = FilterOp_next(@), !.dir = "next", !.steps = @ + 1,
                          !.seen = @ \cup { FilterOp_next(fop.op) },
                          !.rendered = FALSE, !.fragment = << >>, !.needs = FALSE]
    /\ UNCHANGED << app, pc, key, parse_in, parse_out, qdef, qurl, inflight >>

OpPrev ==
    /\ fop.dir \in { "none", "prev" }
    /\ fop.steps < MaxSteps
    /\ fop' = [fop EXCEPT !.op = FilterOp_prev(@), !.dir = "prev", !.steps = @ + 1,
                          !.seen = @ \cup { FilterOp_prev(fop.op) },
                          !.rendered = FALSE, !.fragment = << >>, !.needs = FALSE]
    /\ UNCHANGED << app, pc, key, parse_in, parse_out, qdef, qurl, inflight >>

Render ==
    /\ ~fop.rendered
    /\ fop' = [fop EXCEPT !.rendered = TRUE,
                          !.fragment = to_odata(fop.op, fop.attr, fop.value),
                          !.needs = needs_value(fop.op)]
    /\ UNCHANGED << app, pc, key, parse_in, parse_out, qdef, qurl, inflight >>

SpecFilterOp == InitFilterOp /\ [][OpNext \/ OpPrev \/ Render]_vars

(***************************************************************************)
(* The result invariants                                                   *)
(***************************************************************************)
\* C1: every row of the current QueryResult has exactly Len(columns) cells
C1_RowsAsWideAsColumns ==
    \A i \in 1..Len(app.query_result.rows) :
        Len(app.query_result.rows[i]) = Len(app.query_result.columns)

\* C2: a QueryResult with error set has no columns and no rows
C2_ErrorMeansNoData ==
    app.query_result.error.some =>
        app.query_result.columns = << >> /\ app.query_result.rows = << >>

\* C3: a body without a top-level array named value parses to a result with
\* error set and no columns, rows, lookups, count or next_link, whatever else
\* the body holds
C3_MissingValueIsHardError ==
    (parse_out.done /\ JGet(parse_in, << "value" >>).t # "arr") =>
        /\ parse_out.result.error.some
        /\ parse_out.result.columns = << >>
        /\ parse_out.result.rows = << >>
        /\ DOMAIN parse_out.result.lookups = {}
        /\ ~parse_out.result.count.some
        /\ ~parse_out.result.next_link.some

\* a body whose value is not an array and which holds a link and a count was parsed
C3_Witness ==
    /\ parse_out.done
    /\ JGet(parse_in, << "value" >>).t = "str"
    /\ JGet(parse_in, << "@odata.nextLink" >>).t = "str"
    /\ JGet(parse_in, << "@odata.count" >>).t = "num"
    /\ parse_out.result.error.some

\* the step is a next-page load that the server answered with a body
NextPageLoaded ==
    /\ key' = "n"
    /\ Len(app'.client) = 1
    /\ app'.client[1].by = "load_next_page"
    /\ app'.client[1].ok

\* C4: after a successful next-page load the rows are the previous rows followed
\* by the rows parsed from the new page, the columns are unchanged, and next_link
\* is the new page's link, absent if the page has none
C4_NextPageAppends ==
    [][NextPageLoaded =>
        LET page == from_json(app'.client[1].json)
        IN  /\ app'.query_result.rows = app.query_result.rows \o page.rows
            /\ Len(app'.query_result.rows) >= Len(app.query_result.rows)
            /\ SubSeq(app'.query_result.rows, 1, Len(app.query_result.rows))
                  = app.query_result.rows
            /\ app'.query_result.columns = app.query_result.columns
            /\ app'.query_result.next_link = page.next_link
            /\ (JGet(app'.client[1].json, << "@odata.nextLink" >>).t = "absent"
                    => ~app'.query_result.next_link.some)]_vars

\* a second page of one row was appended to a first page of one row, and the
\* page had no link
C4_Witness ==
    /\ key = "n"
    /\ Len(app.client) = 1
    /\ app.client[1].by = "load_next_page"
    /\ app.client[1].ok
    /\ Len(from_json(app.client[1].json).rows) = 1
    /\ Len(app.query_result.rows) = 2
    /\ ~app.query_result.next_link.some

(***************************************************************************)
(* The guided query builder                                                *)
(***************************************************************************)
\* the key 'c' is pressed where handle_normal_mode hands it to clear_query
ClearPressed ==
    /\ key' = "c"
    /\ app.input_mode = "Normal"
    /\ app.view = "EntityDetail" /\ app.entity_tab = "Query"
    /\ ~(app.query_mode = "Filter" /\ app.query_filter_attr.some)

\* C5: resetting the guided query leaves every selection flag false, the filter
\* list empty, the QueryResult equal to the empty default and the mode Columns
C5_ClearResets ==
    [][ClearPressed =>
        /\ Len(app'.query_selected_columns) = Len(app.query_selected_columns)
        /\ \A i \in 1..Len(app'.query_selected_columns) : ~app'.query_selected_columns[i]
        /\ app'.query_filters = << >>
        /\ app'.query_result.columns = << >>
        /\ app'.query_result.rows = << >>
        /\ DOMAIN app'.query_result.lookups = {}
        /\ ~app'.query_result.count.some
        /\ ~app'.query_result.next_link.some
        /\ ~app'.query_result.error.some
        /\ ~app'.query_result.raw_json.some
        /\ app'.query_mode = "Columns"]_vars

\* 'c' has reset a builder in which a filter had been begun and a value typed
C5_Witness ==
    /\ key = "c"
    /\ app.view = "EntityDetail" /\ app.entity_tab = "Query"
    /\ Len(app.query_selected_columns) = 2
    /\ app.query_filter_attr.some
    /\ app.query_filter_value # << >>
    /\ app.query_mode = "Columns"
    /\ app.query_filters = << >>
    /\ app.query_result = QueryResultDefault
    /\ \A i \in 1..Len(app.query_selected_columns) : ~app.query_selected_columns[i]

\* C6: the mode becomes Results only in a step that issues an execute call whose
\* response replaces the QueryResult
C6_ResultsOnlyByExecution ==
    [][(app.query_mode # "Results" /\ app'.query_mode = "Results") =>
        \E i \in 1..Len(app'.client) :
            /\ app'.client[i].by \in { "execute_guided_query", "execute_fetch_xml_query" }
            /\ app'.client[i].ok
            /\ app'.query_result.columns = from_json(app'.client[i].json).columns
            /\ app'.query_result.rows = from_json(app'.client[i].json).rows]_vars

\* the sections in the order of the cycle
SectionCycle == << "Columns", "Filter", "Options", "Results" >>

\* Tab is pressed where handle_normal_mode takes it as the next-section action
NextSectionPressed ==
    /\ key' = "Tab"
    /\ app.input_mode = "Normal"
    /\ app.view = "EntityDetail" /\ app.entity_tab = "Query"

\* the mode after n next-section actions
RECURSIVE ModeAfterTabs(_, _)
ModeAfterTabs(a, n) ==
    IF n = 0 THEN a.query_mode
    ELSE ModeAfterTabs(run_app_key(a, "Tab", "Connected", Err, Err), n - 1)

\* C7: the next-section action moves Columns to Filter, Filter to Options,
\* Options to Results and Results to Columns; every mode has a successor, and
\* four actions in a row return to the starting mode
C7_NextSectionCycles ==
    /\ [][NextSectionPressed =>
            \E i \in 1..4 : /\ app.query_mode = SectionCycle[i]
                            /\ app'.query_mode = SectionCycle[(i % 4) + 1]]_vars
    /\ []((app.input_mode = "Normal" /\ app.view = "EntityDetail"
              /\ app.entity_tab = "Query")
            => ModeAfterTabs(app, 4) = app.query_mode)

\* Tab has brought a builder that holds a filter from Results round to Columns
C7_Witness ==
    /\ key = "Tab"
    /\ app.view = "EntityDetail" /\ app.entity_tab = "Query"
    /\ app.query_mode = "Columns"
    /\ app.query_filters # << >>

(***************************************************************************)
(* The query string                                                        *)
(***************************************************************************)
\* str::split(sep): the pieces of text between the separators
RECURSIVE Split(_, _)
Split(text, sep) ==
    IF \A i \in 1..Len(text) : text[i] # sep THEN << text >>
    ELSE LET p == CHOOSE i \in 1..Len(text) :
                     text[i] = sep /\ \A j \in 1..(i - 1) : text[j] # sep
         IN  << SubSeq(text, 1, p - 1) >> \o Split(SubSeq(text, p + 1, Len(text)), sep)

\* the clauses a definition calls for, in the fixed order
ClausesOf(q) ==
    (IF q.select # << >> THEN << [kw |-> "$select=", field |-> "select"] >> ELSE << >>)
    \o (IF q.filter # << >> THEN << [kw |-> "$filter=", field |-> "filter"] >> ELSE << >>)
    \o (IF q.order_by # << >> THEN << [kw |-> "$orderby=", field |-> "order_by"] >>
        ELSE << >>)
    \o (IF q.top.some THEN << [kw |-> "$top=", field |-> "top"] >> ELSE << >>)
    \o (IF q.skip.some THEN << [kw |-> "$skip=", field |-> "skip"] >> ELSE << >>)

\* the clause text carries the keyword and the value of its field
ClauseCarries(text, c, q) ==
    /\ Len(text) >= 2
    /\ text[1] = c.kw
    /\ CASE c.field = "select" -> Split(Tail(text), ",") = q.select
         [] c.field = "filter" -> Tail(text) = q.filter
         [] c.field = "order_by" -> Tail(text) = q.order_by
         [] c.field = "top" -> Tail(text) = << ToString(q.top.v) >>
         [] c.field = "skip" -> Tail(text) = << ToString(q.skip.v) >>

\* C8: the query string is the entity-set name alone when no field calls for a
\* clause; otherwise the name, one '?', and the clauses of the non-empty fields
\* in the order $select, $filter, $orderby, $top, $skip, joined by '&'
C8_ClauseOrder ==
    qurl.done =>
        LET name == qdef.entity_set_name
            wanted == ClausesOf(qdef)
            tail == SubSeq(qurl.url, Len(name) + 2, Len(qurl.url))
            got == Split(tail, "&")
        IN  IF wanted = << >> THEN qurl.url = name
            ELSE /\ SubSeq(qurl.url, 1, Len(name)) = name
                 /\ Len(qurl.url) > Len(name) + 1
                 /\ qurl.url[Len(name) + 1] = "?"
                 /\ \A i \in 1..Len(tail) : tail[i] # "?"
                 /\ Len(got) = Len(wanted)
                 /\ \A i \in 1..Len(wanted) : ClauseCarries(got[i], wanted[i], qdef)

\* a definition with all five fields set was rendered
C8_Witness ==
    /\ qurl.done
    /\ Len(qdef.select) = 2 /\ qdef.filter # << >> /\ qdef.order_by # << >>
    /\ qdef.top.some /\ qdef.skip.some
    /\ Len(Split(qurl.url, "&")) = 5

\* the calls execute_guided_query made while handling the last key
GuidedCalls == { i \in 1..Len(app.client) : app.client[i].by = "execute_guided_query" }

\* C9: the $filter clause of a guided query is the fragments of the active
\* filters, in list order, joined with " and ", one per filter; there is no
\* $filter clause exactly when the list is empty
C9_FilterIsConjunction ==
    \A i \in GuidedCalls :
        LET url == app.client[i].url
            at == { p \in 1..Len(url) : url[p] = "$filter=" }
            fragments ==
                [j \in 1..Len(app.query_filters) |->
                    to_odata(app.query_filters[j].operator,
                             app.query_filters[j].attribute_name,
                             app.query_filters[j].value)]
        IN  IF app.query_filters = << >> THEN at = {}
            ELSE /\ Cardinality(at) = 1
                 /\ LET p == CHOOSE x \in at : TRUE
                        clause == Split(SubSeq(url, p + 1, Len(url)), "&")[1]
                    IN  Split(clause, " and ") = fragments

\* a guided query was sent with two different filters
C9_Witness ==
    /\ GuidedCalls # {}
    /\ Len(app.query_filters) = 2
    /\ app.query_filters[1] # app.query_filters[2]
    /\ app.query_filters[1].value # << >>

\* C10: the select list holds each selected name once, in the order in which
\* the user chose them: a name the user selects goes after the names chosen before
C10_SelectInChosenOrder ==
    [][\A i \in 1..Len(app.query_selected_columns) :
          (/\ key' = " "
           /\ Len(app'.query_selected_columns) = Len(app.query_selected_columns)
           /\ ~app.query_selected_columns[i]
           /\ app'.query_selected_columns[i])
          => SelectOf(app') = Append(SelectOf(app), << app.entity_attributes[i] >>)]_vars

(***************************************************************************)
(* The response normalizer                                                 *)
(***************************************************************************)
\* the records of the value array that are objects, in order
ObjectsOf(json) ==
    SelectSeq(JGet(json, << "value" >>).items, LAMBDA r : r.t = "obj")

\* what a cell is to show: the formatted annotation if it is a string, else
\* the raw value by its type, else "-"
ShownCell(record, col) ==
    LET ann == Append(col, FormattedValueSuffix)
    IN  IF ann \in DOMAIN record.fields /\ record.fields[ann].t = "str"
        THEN record.fields[ann].s
        ELSE IF col \notin DOMAIN record.fields THEN "-"
        ELSE LET v == record.fields[col]
             IN  CASE v.t = "null" -> "-"
                   [] v.t = "bool" /\ v.b -> "true"
                   [] v.t = "bool" /\ ~v.b -> "false"
                   [] v.t = "num" -> ToString(v.n)
                   [] v.t = "str" -> v.s
                   [] v.t = "arr" -> "[" \o ToString(Len(v.items)) \o " items]"
                   [] v.t = "obj" -> "{...}"

\* C11: every cell of every record shows the column's formatted-value
\* annotation when it is present and a string, otherwise the raw value rendered
\* by type, otherwise "-" when the record has no such column
C11_CellsShowFormattedElseRaw ==
    (parse_out.done /\ JGet(parse_in, << "value" >>).t = "arr") =>
        LET objs == ObjectsOf(parse_in)
            res == parse_out.result
        IN  /\ Len(res.rows) = Len(objs)
            /\ \A r \in 1..Len(res.rows) :
                  /\ Len(res.rows[r]) = Len(res.columns)
                  /\ \A c \in 1..Len(res.columns) :
                        res.rows[r][c] = ShownCell(objs[r], res.columns[c])

\* status 1 with the annotation "Active" was shown as "Active", and the second
\* record, which has no status, shows "-"
C11_Witness ==
    /\ parse_out.done
    /\ JGet(parse_in, << "value" >>) = JArr(<< RecA, RecB >>)
    /\ parse_out.result.columns[2] = << "status" >>
    /\ JGet(RecA, << "status" >>) = JNum(1)
    /\ parse_out.result.rows[1][2] = "Active"
    /\ parse_out.result.rows[2][2] = "-"

\* the lookup-logical-name annotation the record carries for the column
LookupAnnotation(record, col) == JGet(record, Append(col, LookupLogicalNameSuffix))

\* C12 as stated: whenever a record carries the lookup-logical-name annotation
\* for a discovered column, a LookupInfo is stored at (row_index, column_index)
\* with the annotation as logical_name, the raw field value as id and the
\* cell's display value as display_name
C12_AnnotationAlwaysStored ==
    (parse_out.done /\ JGet(parse_in, << "value" >>).t = "arr") =>
        LET records == JGet(parse_in, << "value" >>).items
            res == parse_out.result
        IN  \A i \in 1..Len(records) : \A c \in 1..Len(res.columns) :
                (/\ records[i].t = "obj"
                 /\ LookupAnnotation(records[i], res.columns[c]).t # "absent")
                => /\ << i - 1, c - 1 >> \in DOMAIN res.lookups
                   /\ res.lookups[<< i - 1, c - 1 >>].logical_name
                        = LookupAnnotation(records[i], res.columns[c]).s

\* C12: a record whose lookup-logical-name annotation for a discovered column
\* is a string, and whose raw value in that column is a string, gets a
\* LookupInfo keyed by (index of the record in the value array, column index)
\* with logical_name the annotation, id the raw value and display_name the
\* display value of the cell; every other cell gets no entry
C12_StringAnnotationStored ==
    (parse_out.done /\ JGet(parse_in, << "value" >>).t = "arr") =>
        LET records == JGet(parse_in, << "value" >>).items
            res == parse_out.result
            cells == { << i, c >> \in (1..Len(records)) \X (1..Len(res.columns)) :
                          /\ records[i].t = "obj"
                          /\ LookupAnnotation(records[i], res.columns[c]).t = "str"
                          /\ JGet(records[i], res.columns[c]).t = "str" }
        IN  /\ DOMAIN res.lookups = { << k[1] - 1, k[2] - 1 >> : k \in cells }
            /\ \A k \in cells :
                  LET info == res.lookups[<< k[1] - 1, k[2] - 1 >>]
                  IN  /\ info.logical_name = LookupAnnotation(records[k[1]], res.columns[k[2]]).s
                      /\ info.id = JGet(records[k[1]], res.columns[k[2]]).s
                      /\ info.display_name
                           = [some |-> TRUE, v |-> ShownCell(records[k[1]], res.columns[k[2]])]

\* the annotation on the column "name" of the first record gave the entry (0, 0)
C12_Witness ==
    /\ parse_out.done
    /\ JGet(parse_in, << "value" >>) = JArr(<< RecP, RecL >>)
    /\ DOMAIN parse_out.result.lookups = { << 0, 0 >> }
    /\ parse_out.result.lookups[<< 0, 0 >>]
         = [id |-> "guid2", logical_name |-> "account",
            display_name |-> [some |-> TRUE, v |-> "Acme"]]

\* C13: a payload whose value array is empty parses to a result with no
\* columns, no rows and no error, whose next_link is the top-level continuation
\* token when that is a string and absent otherwise
C13_EmptyPage ==
    (parse_out.done /\ JGet(parse_in, << "value" >>) = JArr(<< >>)) =>
        LET link == JGet(parse_in, << "@odata.nextLink" >>)
            res == parse_out.result
        IN  /\ res.columns = << >>
            /\ res.rows = << >>
            /\ ~res.error.some
            /\ IF link.t = "str"
               THEN res.next_link = [some |-> TRUE, v |-> link.s]
               ELSE ~res.next_link.some

\* an empty page that carried the continuation token L1 was parsed
C13_Witness ==
    /\ parse_out.done
    /\ JGet(parse_in, << "value" >>) = JArr(<< >>)
    /\ JGet(parse_in, << "@odata.nextLink" >>) = JStr("L1")
    /\ parse_out.result.next_link = [some |-> TRUE, v |-> "L1"]
    /\ parse_out.result.rows = << >>

(***************************************************************************)
(* Failed requests                                                         *)
(***************************************************************************)
\* the operations that send a query
QueryOperations ==
    { "execute_guided_query", "load_next_page", "execute_fetch_xml_query",
      "navigate_to_related_record" }

\* the key handled in this step sent a query that failed
QueryFailed ==
    \E i \in 1..Len(app'.client) :
        app'.client[i].by \in QueryOperations /\ ~app'.client[i].ok

\* C14: when a query operation fails (guided execution, next-page load,
\* FetchXML execution, navigation to a related record), the columns, rows,
\* lookups and next_link of the QueryResult are what they were before the
\* operation was triggered
C14_FailureKeepsResult ==
    [][QueryFailed =>
        /\ app'.query_result.columns = app.query_result.columns
        /\ app'.query_result.rows = app.query_result.rows
        /\ app'.query_result.lookups = app.query_result.lookups
        /\ app'.query_result.next_link = app.query_result.next_link]_vars

\* the key handled in this step sent a guided query that failed
GuidedFailed ==
    \E i \in 1..Len(app'.client) :
        app'.client[i].by = "execute_guided_query" /\ ~app'.client[i].ok

\* the guided state: mode, selection flags, active filters, in-progress
\* filter, order-by, row cap and cursors
GuidedState(a) ==
    << a.query_mode, a.query_selected_columns, a.query_filters,
       a.query_filter_attr, a.query_filter_op, a.query_filter_value,
       a.query_order_by, a.query_order_desc, a.query_top,
       a.query_column_index, a.query_filter_index, a.query_result_index >>

\* C15: a guided execution request that fails leaves the guided state as it
\* was before the request
C15_FailureKeepsGuidedState ==
    [][GuidedFailed => GuidedState(app') = GuidedState(app)]_vars

\* a guided query failed while a filter was active, another was being typed
\* and the column cursor had moved
C15_Witness ==
    /\ \E i \in 1..Len(app.client) :
          app.client[i].by = "execute_guided_query" /\ ~app.client[i].ok
    /\ app.query_result.error.some
    /\ app.query_mode = "Filter"
    /\ app.query_filters # << >>
    /\ app.query_filter_attr.some
    /\ app.query_filter_value # << >>
    /\ app.query_column_index = 1

(***************************************************************************)
(* Requests in flight                                                      *)
(***************************************************************************)
\* C16: at most one execute or page-continuation request is outstanding, and
\* from the issue of a request to its resolution no key is read: the only step
\* while a request is in flight is its resolution, so no guided-query field
\* changes and no other request starts before that (the resolution itself sets
\* at most the mode and the result cursor)
C16_OneRequestInFlight ==
    /\ [](Len(inflight) <= 1)
    /\ [][inflight # << >> =>
            /\ key' = key
            /\ inflight' = << >>
            /\ Len(app'.client) = 1
            /\ app'.client[1].by = inflight[1].by
            /\ app'.client[1].url = inflight[1].url
            /\ GuidedState(app) = GuidedState([app' EXCEPT
                    !.query_mode = app.query_mode,
                    !.query_result_index = app.query_result_index])]_vars

\* a page-continuation request is outstanding
C16_Witness ==
    /\ pc = "await"
    /\ Len(inflight) = 1
    /\ inflight[1].by = "load_next_page"
    /\ app.state = "Loading"
    /\ app.query_result.next_link.some

(***************************************************************************)
(* Switching entities                                                      *)
(***************************************************************************)
\* Enter on the entity list has opened an entity other than the one inspected
\* before, and its attributes were loaded
EntitySwitched ==
    /\ key' = "Enter"
    /\ app.view = "Entities" /\ app'.view = "EntityDetail"
    /\ app.selected_entity.some
    /\ app'.selected_entity # app.selected_entity
    /\ \E i \in 1..Len(app'.client) :
          app'.client[i].by = "load_entity_detail" /\ app'.client[i].ok

\* C17: once a switch to a different entity completes, the guided state is
\* reset: mode Columns, every selection flag false, no active filter, no
\* in-progress filter (no attribute, empty value, operator Equals), cursors 0
\* and the QueryResult the empty default
C17_SwitchResetsGuidedState ==
    [][EntitySwitched =>
        /\ app'.query_mode = "Columns"
        /\ \A i \in 1..Len(app'.query_selected_columns) : ~app'.query_selected_columns[i]
        /\ app'.query_filters = << >>
        /\ ~app'.query_filter_attr.some
        /\ app'.query_filter_value = << >>
        /\ app'.query_filter_op = "Equals"
        /\ app'.query_column_index = 0
        /\ app'.query_filter_index = 0
        /\ app'.query_result_index = 0
        /\ app'.query_result = QueryResultDefault]_vars

(***************************************************************************)
(* The filter operators                                                    *)
(***************************************************************************)
\* the fixed order of the operators
OperatorOrder ==
    << "Equals", "NotEquals", "Contains", "StartsWith", "EndsWith",
       "GreaterThan", "LessThan", "IsNull", "IsNotNull" >>

\* the operator n places after o in the order, wrapping at the end
PlacesAfter(o, n) ==
    LET i == CHOOSE j \in 1..9 : OperatorOrder[j] = o
    IN  OperatorOrder[((i - 1 + n) % 9) + 1]

\* C18: next() advances to the successor in the fixed order and wraps from
\* IsNotNull to Equals; prev() is its inverse: prev(next(op)) = next(prev(op))
\* = op, and nine applications of either return to the start after visiting
\* all nine operators
C18_OperatorCycle ==
    /\ FilterOp_prev(FilterOp_next(fop.op)) = fop.op
    /\ FilterOp_next(FilterOp_prev(fop.op)) = fop.op
    /\ FilterOp_next(fop.op) = PlacesAfter(fop.op, 1)
    /\ fop.dir = "next" => fop.op = PlacesAfter(fop.start, fop.steps)
    /\ fop.dir = "prev" => fop.op = PlacesAfter(fop.start, 8 * fop.steps)
    /\ fop.steps \in 1..8 => (fop.op # fop.start /\ Cardinality(fop.seen) = fop.steps + 1)
    /\ fop.steps = 9 => (fop.op = fop.start /\ Cardinality(fop.seen) = 9)

\* nine applications of prev() have brought LessThan back to LessThan
C18_Witness ==
    /\ fop.dir = "prev"
    /\ fop.steps = 9
    /\ fop.start = "LessThan"
    /\ fop.op = "LessThan"
    /\ Cardinality(fop.seen) = 9

\* C19: needs_value() is false exactly when the operator is IsNull or
\* IsNotNull, and true for the other seven
C19_NeedsValue ==
    fop.rendered =>
        /\ fop.op \in { "IsNull", "IsNotNull" } => ~fop.needs
        /\ fop.op \in { "Equals", "NotEquals", "Contains", "StartsWith", "EndsWith",
                        "GreaterThan", "LessThan" } => fop.needs

\* needs_value() was asked of IsNotNull
C19_Witness ==
    /\ fop.rendered
    /\ fop.op = "IsNotNull"
    /\ ~fop.needs

\* the shape of the fragment of each operator
FragmentShape(op, a, v) ==
    CASE op = "Equals" -> << a, " eq '" >> \o v \o << "'" >>
      [] op = "NotEquals" -> << a, " ne '" >> \o v \o << "'" >>
      [] op = "Contains" -> << "contains(", a, ", '" >> \o v \o << "')" >>
      [] op = "StartsWith" -> << "startswith(", a, ", '" >> \o v \o << "')" >>
      [] op = "EndsWith" -> << "endswith(", a, ", '" >> \o v \o << "')" >>
      [] op = "GreaterThan" -> << a, " gt " >> \o v
      [] op = "LessThan" -> << a, " lt " >> \o v
      [] op = "IsNull" -> << a, " eq null" >>
      [] op = "IsNotNull" -> << a, " ne null" >>

\* C20: the rendered fragment has the operator's shape with the value put in
\* as it is, quotes included, and for IsNull and IsNotNull it is the same
\* for every value
C20_FragmentShape ==
    fop.rendered =>
        /\ fop.fragment = FragmentShape(fop.op, fop.attr, fop.value)
        /\ fop.op \in { "IsNull", "IsNotNull" } =>
              \A v \in FilterValues : to_odata(fop.op, fop.attr, v) = fop.fragment

\* a value that holds a quote was rendered for Contains
C20_Witness ==
    /\ fop.rendered
    /\ fop.op = "Contains"
    /\ fop.attr = "name"
    /\ fop.fragment = << "contains(", "name", ", '", "it", "'", "s", "')" >>

(***************************************************************************)
(* The FetchXML passthrough                                                *)
(***************************************************************************)
\* the text holds an opener of the entity name attribute and, after it, the
\* quote character that closes the attribute (an opener ends in that character)
NameLocatable(text) ==
    \/ \E i, j \in 1..Len(text) :
          i < j /\ text[i] = EntityOpenDq /\ text[j] \in { QuoteDq, EntityOpenDq }
    \/ \E i, j \in 1..Len(text) :
          i < j /\ text[i] = EntityOpenSq /\ text[j] \in { QuoteSq, EntityOpenSq }

\* Enter is pressed on a FetchXML text that is not empty and in which the
\* entity name cannot be located
UnlocatableSent ==
    /\ key' = "Enter"
    /\ app.input_mode = "FetchXML"
    /\ app.fetchxml_query # << >>
    /\ ~NameLocatable(app.fetchxml_query)

\* C21: when the entity name attribute cannot be located in a non-empty
\* FetchXML text, an error message is surfaced, no execute call is issued,
\* the QueryResult, the view and the guided mode are unchanged, and the
\* application state is Ready
C21_FetchFailsClosed ==
    [][UnlocatableSent =>
        /\ app'.error.some
        /\ app'.client = << >>
        /\ app'.query_result = app.query_result
        /\ app'.view = app.view
        /\ app'.query_mode = app.query_mode
        /\ app'.state = "Ready"
        /\ ~app'.should_quit]_vars

\* a text whose attribute is never closed was sent while an earlier result was held
C21_Witness ==
    /\ key = "Enter"
    /\ app.view = "FetchXML"
    /\ app.fetchxml_query = << EntityOpenDq, "account" >>
    /\ app.error.some
    /\ app.client = << >>
    /\ app.query_result.rows # << >>
    /\ app.state = "Ready"

(***************************************************************************)
(* Clearing a definition                                                   *)
(***************************************************************************)
\* C22: clearing a QueryDefinition resets every field (entity_name,
\* entity_set_name, select, filter, order_by, top, skip) to its default, so
\* the cleared definition equals a default-constructed one
C22_ClearGivesDefault ==
    [][qdef' # qdef =>
        /\ qdef'.entity_name = QueryDefinitionDefault.entity_name
        /\ qdef'.entity_set_name = QueryDefinitionDefault.entity_set_name
        /\ qdef'.select = QueryDefinitionDefault.select
        /\ qdef'.filter = QueryDefinitionDefault.filter
        /\ qdef'.order_by = QueryDefinitionDefault.order_by
        /\ qdef'.top = QueryDefinitionDefault.top
        /\ qdef'.skip = QueryDefinitionDefault.skip
        /\ qdef' = QueryDefinitionDefault]_vars

\* C23: every key (r, c) of lookups has r < rows.len() and c < columns.len(),
\* and rows[r] is the row of the record that carried the lookup annotation,
\* also when the value array mixes objects with other values
C23_LookupKeysPointAtRows ==
    (parse_out.done /\ JGet(parse_in, << "value" >>).t = "arr") =>
        LET res == parse_out.result
            objs == ObjectsOf(parse_in)
        IN  \A k \in DOMAIN res.lookups :
                /\ k[1] >= 0 /\ k[1] < Len(res.rows)
                /\ k[2] >= 0 /\ k[2] < Len(res.columns)
                /\ LET col == res.columns[k[2] + 1]
                       record == objs[k[1] + 1]
                   IN  /\ LookupAnnotation(record, col) = JStr(res.lookups[k].logical_name)
                       /\ JGet(record, col) = JStr(res.lookups[k].id)
                       /\ res.rows[k[1] + 1][k[2] + 1] = ShownCell(record, col)

\* C24: the columns are the field names of the first record that do not begin
\* with '@', each once, in ascending order; a field that occurs only in a later
\* record is no column
C24_ColumnsOfFirstRecord ==
    (parse_out.done /\ JGet(parse_in, << "value" >>).t = "arr"
        /\ JGet(parse_in, << "value" >>).items # << >>) =>
        LET first == JGet(parse_in, << "value" >>).items[1]
            names == IF first.t = "obj"
                     THEN { k \in DOMAIN first.fields : ~StartsWithAt(k) }
                     ELSE {}
            columns == parse_out.result.columns
        IN  /\ { columns[i] : i \in 1..Len(columns) } = names
            /\ Len(columns) = Cardinality(names)
            /\ \A i, j \in 1..Len(columns) : i < j => NameLess(columns[i], columns[j])

\* the first record has only a name; the status of the second is no column
C24_Witness ==
    /\ parse_out.done
    /\ JGet(parse_in, << "value" >>) = JArr(<< RecB, RecA >>)
    /\ << "status" >> \in DOMAIN RecA.fields
    /\ parse_out.result.columns = << << "name" >> >>
    /\ Len(parse_out.result.rows) = 2

\* C25: when the payload has a value array and a top-level numeric count (a
\* number that fits usize), the count of the result is that number, whether the
\* value array is empty or not
C25_CountAlwaysPopulated ==
    LET cnt == JGet(parse_in, << "@odata.count" >>)
    IN  (parse_out.done /\ JGet(parse_in, << "value" >>).t = "arr"
            /\ cnt.t = "num" /\ cnt.n >= 0) =>
            parse_out.result.count = [some |-> TRUE, v |-> cnt.n]

(***************************************************************************)
(* Pagination                                                              *)
(***************************************************************************)
\* 'n' is pressed where handle_normal_mode hands it to load_next_page
NextPagePressed ==
    /\ key' = "n"
    /\ app.input_mode = "Normal"
    /\ app.view = "EntityDetail" /\ app.entity_tab = "Query"
    /\ app.query_mode = "Results"

\* C26: when the current result has no next_link, a next-page request issues
\* no call and changes nothing: rows, lookups, raw_json, application state and
\* error slot are as before
C26_NoLinkNoRequest ==
    [][(NextPagePressed /\ ~app.query_result.next_link.some) =>
        /\ app'.client = << >>
        /\ app'.query_result = app.query_result
        /\ app'.state = app.state
        /\ app'.error = app.error
        /\ app' = [app EXCEPT !.client = << >>]]_vars

\* 'n' was pressed on a result that has rows and no continuation
C26_Witness ==
    /\ key = "n"
    /\ app.view = "EntityDetail" /\ app.entity_tab = "Query"
    /\ app.query_mode = "Results"
    /\ app.client = << >>
    /\ app.query_result.rows # << >>
    /\ ~app.query_result.next_link.some

\* the next-page request of this step failed in transport
NextPageFailed ==
    /\ NextPagePressed
    /\ \E i \in 1..Len(app'.client) :
          app'.client[i].by = "load_next_page" /\ ~app'.client[i].ok

\* C27: when a next-page request fails in transport, the QueryResult is
\* unchanged (columns, rows, lookups, raw_json, next_link), the message is in
\* the external error slot, and the same page can be requested again
C27_NextPageFailureKeepsResult ==
    [][NextPageFailed =>
        /\ app'.query_result = app.query_result
        /\ app'.error.some
        /\ app'.state = "Ready"
        /\ app'.query_mode = "Results"
        /\ LET again == run_app_key(app', "n", "Connected", Err, Err).client
           IN  /\ Len(again) = 1
               /\ again[1].by = "load_next_page"
               /\ again[1].url = app'.client[1].url
               /\ again[1].url = << app.query_result.next_link.v >>]_vars

\* a next-page request failed on a result that has rows
C27_Witness ==
    /\ key = "n"
    /\ \E i \in 1..Len(app.client) :
          app.client[i].by = "load_next_page" /\ ~app.client[i].ok
    /\ app.query_result.rows # << >>
    /\ app.query_result.next_link.some
    /\ app.error.some

\* the next-page request of this step was answered with a body that has no
\* top-level value array
NextPageMalformed ==
    /\ NextPagePressed
    /\ \E i \in 1..Len(app'.client) :
          /\ app'.client[i].by = "load_next_page"
          /\ app'.client[i].ok
          /\ JGet(app'.client[i].json, << "value" >>).t # "arr"

\* C28: when the response to a next-page request has no top-level value
\* array, the malformation is surfaced through QueryResult.error
C28_MalformedPageSurfaced ==
    [][NextPageMalformed => app'.query_result.error.some]_vars

(***************************************************************************)
(* The in-progress filter                                                  *)
(***************************************************************************)
\* Enter is pressed in Columns mode: the column under the cursor is confirmed
ColumnConfirmed ==
    /\ key' = "Enter"
    /\ app.input_mode = "Normal"
    /\ app.view = "EntityDetail" /\ app.entity_tab = "Query"
    /\ app.query_mode = "Columns"

\* C29: confirming a column in Columns mode gives mode Filter, the in-progress
\* attribute equal to the attribute under the column cursor, and the
\* in-progress operator Equals, whatever operator earlier filters had
C29_ConfirmSeedsEquals ==
    [][ColumnConfirmed =>
        /\ app'.query_mode = "Filter"
        /\ app'.query_filter_attr = [some |-> TRUE, v |-> app.query_column_index]
        /\ app'.query_filter_op = "Equals"]_vars

\* Esc is pressed in Filter mode while an in-progress filter exists
FilterCancelled ==
    /\ key' = "Esc"
    /\ app.input_mode = "Normal"
    /\ app.view = "EntityDetail" /\ app.entity_tab = "Query"
    /\ app.query_mode = "Filter"
    /\ app.query_filter_attr.some

\* C30: cancelling while an in-progress filter exists in Filter mode discards
\* it and commits nothing: the in-progress slot becomes empty, the active
\* filter list is unchanged, and the user remains in the query builder
C30_CancelDiscardsInProgress ==
    [][FilterCancelled =>
        /\ ~app'.query_filter_attr.some
        /\ app'.query_filters = app.query_filters
        /\ app'.view = "EntityDetail"
        /\ app'.entity_tab = "Query"]_vars

(***************************************************************************)
(* The active filter list                                                  *)
(***************************************************************************)
\* Enter is pressed in Filter mode: the in-progress filter is appended
AppendPressed ==
    /\ key' = "Enter"
    /\ app.input_mode = "Normal"
    /\ app.view = "EntityDetail" /\ app.entity_tab = "Query"
    /\ app.query_mode = "Filter"

\* C31 as stated: appending with an in-progress filter present adds exactly
\* one FilterCondition (the in-progress attribute's name, the current operator,
\* the current value) at the end of the active list and clears the in-progress
\* slot; appending with no in-progress filter leaves the active list unchanged
C31_AppendCommitsInProgress ==
    [][AppendPressed =>
        IF app.query_filter_attr.some
        THEN /\ app.query_filter_attr.v < Len(app.entity_attributes)
             /\ app'.query_filters =
                   Append(app.query_filters,
                          [attribute_name |-> app.entity_attributes[app.query_filter_attr.v + 1],
                           operator |-> app.query_filter_op,
                           value |-> app.query_filter_value])
             /\ ~app'.query_filter_attr.some
             /\ app'.query_filter_value = << >>
        ELSE app'.query_filters = app.query_filters]_vars

\* C32: the active filter list holds no incomplete condition: no active
\* FilterCondition has an operator that needs a value together with an empty value
C32_NoIncompleteCondition ==
    \A i \in 1..Len(app.query_filters) :
        ~(/\ app.query_filters[i].operator \notin { "IsNull", "IsNotNull" }
          /\ app.query_filters[i].value = << >>)

\* 'd' is pressed in Filter mode: the condition under the filter cursor is removed
RemovePressed ==
    /\ key' = "d"
    /\ app.input_mode = "Normal"
    /\ app.view = "EntityDetail" /\ app.entity_tab = "Query"
    /\ app.query_mode = "Filter"

\* the active list after the step is the list before it without position p
RemovedAt(p) ==
    /\ p \in 1..Len(app.query_filters)
    /\ Len(app'.query_filters) = Len(app.query_filters) - 1
    /\ \A j \in 1..Len(app'.query_filters) :
          app'.query_filters[j] = app.query_filters[IF j < p THEN j ELSE j + 1]

\* the step loaded the attributes of an entity
EntityLoaded ==
    \E i \in 1..Len(app'.client) :
        app'.client[i].by = "load_entity_detail" /\ app'.client[i].ok

\* C33: an active FilterCondition keeps its attribute name, operator, value
\* and place among the others until explicit removal, query reset or entity
\* switch; explicit removal deletes exactly the condition under the filter
\* cursor, and no other action changes the active list
C33_ActiveListChangesOnlyByCommand ==
    [][\/ app'.query_filters = app.query_filters
       \/ /\ AppendPressed
          /\ Len(app'.query_filters) = Len(app.query_filters) + 1
          /\ SubSeq(app'.query_filters, 1, Len(app.query_filters)) = app.query_filters
       \/ /\ RemovePressed
          /\ RemovedAt(app.query_filter_index + 1)
       \/ /\ ClearPressed
          /\ app'.query_filters = << >>
       \/ /\ EntityLoaded
          /\ app'.query_filters = << >>]_vars

\* 'd' has removed the first of two conditions; the second one is left as it was
C33_Witness ==
    /\ key = "d"
    /\ app.view = "EntityDetail" /\ app.entity_tab = "Query"
    /\ app.query_mode = "Filter"
    /\ app.query_filter_index = 0
    /\ Len(app.query_filters) = 1
    /\ app.query_filters[1].value = << "c" >>

\* a key of the column-selection commands is pressed in the query builder:
\* Space (toggle), 'a' (select all), 'c' (clear), none of them being typed
\* into an in-progress filter value
SelectionPressed(k) ==
    /\ key' = k
    /\ app.input_mode = "Normal"
    /\ app.view = "EntityDetail" /\ app.entity_tab = "Query"
    /\ ~(app.query_mode = "Filter" /\ app.query_filter_attr.some)

\* everything of the guided query but the selection flags is as before
OnlyFlagsChange ==
    [app' EXCEPT !.query_selected_columns = app.query_selected_columns, !.client = app.client] = app

\* Space flips the flag under the column cursor and no other
TogglesOne ==
    SelectionPressed(" ") =>
        /\ OnlyFlagsChange
        /\ Len(app'.query_selected_columns) = Len(app.query_selected_columns)
        /\ \A i \in 1..Len(app.query_selected_columns) :
              app'.query_selected_columns[i] =
                  IF i = app.query_column_index + 1
                  THEN ~app.query_selected_columns[i]
                  ELSE app.query_selected_columns[i]

\* 'a' sets every flag
SelectsAll ==
    SelectionPressed("a") =>
        /\ OnlyFlagsChange
        /\ Len(app'.query_selected_columns) = Len(app.query_selected_columns)
        /\ \A i \in 1..Len(app.query_selected_columns) : app'.query_selected_columns[i]

\* 'c' clears every flag
ClearsAll ==
    SelectionPressed("c") =>
        /\ OnlyFlagsChange
        /\ Len(app'.query_selected_columns) = Len(app.query_selected_columns)
        /\ \A i \in 1..Len(app.query_selected_columns) : ~app'.query_selected_columns[i]

\* C34: toggling, select-all and clear-all change only selection flags: the
\* toggle flips the flag under the column cursor alone, select-all sets every
\* flag, clear-all clears every flag, and none of them changes filters,
\* order-by, row cap, mode or the current QueryResult
C34_SelectionChangesOnlyFlags ==
    [][TogglesOne /\ SelectsAll /\ ClearsAll]_vars

\* C35: in every state the selection-flag array has exactly as many entries
\* as the loaded attribute list, so flag i belongs to attribute i, also after
\* an entity switch whose attribute load failed
C35_FlagsMatchAttributes ==
    Len(app.query_selected_columns) = Len(app.entity_attributes)

\* the switch from account to contact has failed to load the attributes: the
\* two attributes of account and their two flags are still there
C35_Witness ==
    /\ key = "Enter"
    /\ app.view = "EntityDetail"
    /\ app.state = "Error"
    /\ app.selected_entity.some /\ app.selected_entity.v.logical_name = "contact"
    /\ Len(app.entity_attributes) = 2
    /\ Len(app.query_selected_columns) = 2

\* C36: in every state where the current QueryResult has a row, the result
\* cursor is less than rows.len(), so the record that enter_record_detail
\* opens exists; after guided executions, next-page loads, FetchXML
\* executions and resets
C36_ResultCursorInRange ==
    Len(app.query_result.rows) > 0 => app.query_result_index < Len(app.query_result.rows)

\* C37: in every state the filter cursor is 0 when the active filter list is
\* empty and otherwise less than the list's length, so a removal requested on
\* a non-empty list removes a condition; after any sequence of append, remove,
\* reset and cursor moves
C37_FilterCursorInRange ==
    IF Len(app.query_filters) = 0
    THEN app.query_filter_index = 0
    ELSE app.query_filter_index < Len(app.query_filters)

\* the lookups entries a next-page load owes to the rows it appends: the keys
\* of the page's own lookups, with the row index moved behind the rows that
\* were already there
AppendedLookupKeys(before, page) ==
    { << Len(before.rows) + k[1], k[2] >> : k \in DOMAIN page.lookups }

\* the lookups entries of the rows that were already present are unchanged
OldLookupsKept ==
    [][NextPageLoaded =>
        \A k \in DOMAIN app.query_result.lookups :
            /\ k \in DOMAIN app'.query_result.lookups
            /\ app'.query_result.lookups[k] = app.query_result.lookups[k]]_vars

\* C38: after a next-page load every lookup cell of the appended rows has a
\* lookups entry keyed by its row index in the merged result and its column
\* index, and the entries of the rows already present are unchanged
C38_NextPageKeepsLookups ==
    [][NextPageLoaded =>
        LET page == from_json(app'.client[1].json)
        IN  /\ AppendedLookupKeys(app.query_result, page)
                  \subseteq DOMAIN app'.query_result.lookups
            /\ \A k \in DOMAIN app.query_result.lookups :
                  /\ k \in DOMAIN app'.query_result.lookups
                  /\ app'.query_result.lookups[k] = app.query_result.lookups[k]]_vars

\* the character keys of the model: KeyCode::Char(c)
CharKeys == { "q", "f", "d", "o", "a", "c", "x", "n", " " }

\* a character key is pressed while the query tab is in Filter mode with a
\* filter in progress
TypedIntoFilter ==
    /\ key' \in CharKeys
    /\ app.input_mode = "Normal"
    /\ app.view = "EntityDetail" /\ app.entity_tab = "Query"
    /\ app.query_mode = "Filter"
    /\ app.query_filter_attr.some

\* C39: while the query tab is in Filter mode with an in-progress filter, a
\* character key press appends that character to the in-progress value and
\* changes nothing else: mode, view, operator, active filters and input mode
\* are as before
C39_CharactersAreTyped ==
    [][TypedIntoFilter =>
        /\ app'.query_filter_value = Append(app.query_filter_value, key')
        /\ [app' EXCEPT !.query_filter_value = app.query_filter_value,
                        !.client = app.client] = app]_vars

\* C40: once an operation that sets the state to Loading has returned (the
\* loads, guided execution, next page, FetchXML, related-record navigation,
\* environment switch, on success and on every failure path), the state is
\* Ready or Error, never still Loading
C40_NeverLeftLoading ==
    pc \in { "loop", "done" } => app.state \in { "Ready", "Error" }

====
